---- MODULE Spec2Model ----
(***************************************************************************)
(* Finite-size corrections of charged point defects and the delocalization *)
(* analysis that judges them (pymatgen.analysis.defects).                  *)
(*                                                                         *)
(* One defect entry is the state: its parameter store, its correction map, *)
(* its charge and defect type, together with the DefectCompatibility       *)
(* object that processes it and the long-lived correction objects a caller *)
(* may apply to it directly.  Every method is one action; a method that    *)
(* raises leaves the mutations it made before the raise in place and       *)
(* records the exception in `raised`.                                      *)
(*                                                                         *)
(* Numbers: Python floats are fixed-point integers.  Energies, potentials  *)
(* and tolerances are in units of 0.01 (0.1 is 10), lengths in units of    *)
(* 0.1 Angstrom.  Division is FDiv (rounds down).                          *)
(***************************************************************************)
EXTENDS Integers, Sequences, FiniteSets, TLC

VARIABLES
    parameters,     \* entry.parameters: dict, key -> value
    correction,     \* entry.correction: dict, label -> energy
    charge,         \* entry.charge == entry.defect.charge
    defect_type,    \* type(entry.defect)
    dc,             \* attributes of the DefectCompatibility object
    FC,             \* the caller's FreysoldtCorrection object
    KC,             \* the caller's KumagaiCorrection object
    op,             \* the method called last
    raised,         \* the exception it raised, "none" when it returned
    ret,            \* the dict it returned (empty when it returns the entry)
    defect_sc,      \* entry.defect: the supercell it generates and its site's index
    pre_keys,       \* history: the keys of entry.parameters before the last call
    calls,          \* history: how often each correction's get_correction ran
    checks          \* history: the channels of delocalization_meta the last call wrote

vars == <<parameters, correction, charge, defect_type, dc, FC, KC, op, raised, ret,
          defect_sc, pre_keys, calls, checks>>

----------------------------------------------------------------------------
(* Bounds of the model *)

MaxCharge == 1
MaxCalls == 2
NGX == 6            \* points of the planar-average grid of an axis
NSites == 3         \* sites of the defect supercell

----------------------------------------------------------------------------
(* Python values *)

EmptyDict == <<>>

Has(d, k) == k \in DOMAIN d

Put(d, k, v) == [x \in DOMAIN d \cup {k} |-> IF x = k THEN v ELSE d[x]]

Update(d, u) == [x \in DOMAIN d \cup DOMAIN u |-> IF x \in DOMAIN u THEN u[x] ELSE d[x]]

Without(d, k) == [x \in DOMAIN d \ {k} |-> d[x]]

HasAll(d, ks) == \A i \in 1..Len(ks) : ks[i] \in DOMAIN d

Abs(a) == IF a < 0 THEN -a ELSE a

FDiv(a, b) == IF b > 0 THEN a \div b ELSE (-a) \div (-b)

RECURSIVE SumSeq(_)
SumSeq(s) == IF s = <<>> THEN 0 ELSE Head(s) + SumSeq(Tail(s))

RECURSIVE MinSeq(_)
MinSeq(s) ==
    IF Len(s) = 1 THEN s[1]
    ELSE LET m == MinSeq(Tail(s)) IN IF s[1] < m THEN s[1] ELSE m

RECURSIVE MaxSeq(_)
MaxSeq(s) ==
    IF Len(s) = 1 THEN s[1]
    ELSE LET m == MaxSeq(Tail(s)) IN IF s[1] > m THEN s[1] ELSE m

Mean(s) == FDiv(SumSeq(s), Len(s))

SqSeq(s) == [i \in 1..Len(s) |-> s[i] * s[i]]

\* nan: no variance is negative, so a negative number stands for it
NaN == 0 - 1

\* sample variance (ddof = 1) in units of 0.01; one sample has none (nan)
Variance(s) ==
    IF Len(s) < 2 THEN NaN
    ELSE FDiv(Len(s) * SumSeq(SqSeq(s)) - SumSeq(s) * SumSeq(s),
              Len(s) * (Len(s) - 1) * 100)

\* scipy.stats.describe(sample)._asdict(): the fields the analysis reads
Describe(s) == [nobs |-> Len(s), minmax |-> <<MinSeq(s), MaxSeq(s)>>,
                mean |-> Mean(s), variance |-> Variance(s)]

\* a <= b on floats, where a may be nan: every comparison with nan is False
LeqNan(a, b) == IF a = NaN THEN FALSE ELSE a <= b

\* numpy.roll(a, r)
Roll(a, r) == [k \in 1..Len(a) |-> a[((k - 1 - r) % Len(a)) + 1]]

----------------------------------------------------------------------------
(* The frame of a call: the entry as the method sees it, the exception it  *)
(* raises and what it returns.                                             *)

Frame == [p |-> parameters, c |-> correction, exc |-> "none", ret |-> EmptyDict,
          val |-> 0, fc |-> FC.metadata, kc |-> KC.metadata,
          calls |-> calls, checks |-> {}]

Raise(e, x) == [e EXCEPT !.exc = x]

Ok(e) == e.exc = "none"

\* the next statement runs only when the one before it did not raise
Then(e, F(_)) == IF Ok(e) THEN F(e) ELSE e

Counted(e, k) == [e EXCEPT !.calls = [e.calls EXCEPT ![k] = IF @ < MaxCalls THEN @ + 1 ELSE @]]

----------------------------------------------------------------------------
(* FreysoldtCorrection (corrections.py)                                    *)
(*                                                                         *)
(* A lattice is a record: abc (axis lengths), eiso and eper (the converged *)
(* isolated and periodic model-charge energies of a unit charge, in eV),   *)
(* Vlr[axis] and Vim[axis] (real and imaginary part of the transformed     *)
(* long-range model potential of the axis for -q/dielectric = 1; the       *)
(* imaginary part in units of madetol), and the lattice sums of the        *)
(* Kumagai scheme.  Fractional coordinates are in units of 1/FracDen.      *)

FracDen == 12

widthsample == 10

madetol == 1

FreshFCMetadata == [pot_plot_data |-> EmptyDict, pot_corr_uncertainty_md |-> EmptyDict]

\* a variant whose energies are those of a unit charge whatever q is: the
\* zero-charge property must tell it from perform_es_corr
perform_es_corr_unit_charge(lattice, q, dielectric) ==
    FDiv(lattice.eiso - lattice.eper, dielectric)

perform_es_corr(lattice, q, dielectric) ==
    FDiv(q * q * lattice.eiso - q * q * lattice.eper, dielectric)

\* the value of i when the loop "for i in range(nx): if v < grid[i]: break" ends
RECURSIVE BreakIndex(_, _, _)
BreakIndex(grid, v, i) ==
    IF i >= Len(grid) - 1 THEN Len(grid) - 1
    ELSE IF v < grid[i + 1] THEN i
    ELSE BreakIndex(grid, v, i + 1)

\* short[i] for a Python index i of a list of length n (negative i wraps)
PyIndexOk(i, n) == i >= 0 - n /\ i < n

\* a variant that reads the sample after the one asked for
PyAtNext(s, i) == s[((i + 1) % Len(s)) + 1]

PyAt(s, i) == IF i < 0 THEN s[Len(s) + i + 1] ELSE s[i + 1]

ImagTooLarge(v_im) == Abs(MaxSeq(v_im)) > madetol

perform_pot_corr(e, dielectric, axis_grid, pureavg0, defavg0, lattice, q, pos, axis) ==
    LET nx == Len(axis_grid)
        abc == lattice.abc[axis + 1]
        ax0 == FDiv(pos[axis + 1] * abc, FracDen)
        axbulkval == IF ax0 < 0 THEN ax0 + abc
                     ELSE IF ax0 > abc THEN ax0 - abc ELSE ax0
        rollind == nx - BreakIndex(axis_grid, axbulkval, 0)
        v_re == [k \in 1..nx |-> FDiv((0 - q) * lattice.Vlr[axis + 1][k], dielectric)]
        v_im == [k \in 1..nx |-> (0 - q) * lattice.Vim[axis + 1][k]]
        checkdis == widthsample \div (2 * (axis_grid[2] - axis_grid[1]))
        mid == nx \div 2
        lo == mid - checkdis
        hi == mid + checkdis
        \* lines 265-282: the correction and the metadata of the axis
        Recorded(pureavg, defavg, short, tmppot, C) ==
            [e EXCEPT !.val = (0 - q) * C,
                      !.fc = [pot_plot_data |->
                                  Put(e.fc.pot_plot_data, axis,
                                      [Vr |-> [k \in 1..nx |-> v_re[k] - C],
                                       x |-> axis_grid,
                                       dft_diff |-> [k \in 1..nx |-> defavg[k] - pureavg[k]],
                                       final_shift |-> [k \in 1..nx |-> short[k] + C],
                                       check |-> <<lo, hi + 1>>]),
                              pot_corr_uncertainty_md |->
                                  Put(e.fc.pot_corr_uncertainty_md, axis,
                                      [stats |-> Describe(tmppot),
                                       potcorr |-> (0 - q) * C])]]
        \* lines 256-263: the sampling window around the middle of the cell
        Aligned(pureavg, defavg, short, tmppot) ==
            Recorded(pureavg, defavg, short, tmppot, 0 - Mean(tmppot))
        Windowed(pureavg, defavg, short) ==
            IF ImagTooLarge(v_im) THEN Raise(e, "Exception")
            ELSE IF ~(PyIndexOk(lo, nx) /\ PyIndexOk(hi, nx)) THEN Raise(e, "IndexError")
            ELSE Aligned(pureavg, defavg, short,
                         [j \in 1..(hi - lo + 1) |-> PyAt(short, lo + j - 1)])
        \* line 253: the short range potential
        Rolled(pureavg, defavg) ==
            Windowed(pureavg, defavg, [k \in 1..nx |-> defavg[k] - pureavg[k] - v_re[k]])
    IN  Rolled(IF axbulkval # 0 THEN Roll(pureavg0, rollind) ELSE pureavg0,
               IF axbulkval # 0 THEN Roll(defavg0, rollind) ELSE defavg0)

\* the loop of get_correction over the chosen axes; tracker collects the results
RECURSIVE PotCorrLoop(_, _, _, _, _, _)
PotCorrLoop(e, o, axes, lattice, pos, tracker) ==
    IF axes = <<>> THEN [e EXCEPT !.val = tracker]
    ELSE IF ~Ok(e) THEN e
    ELSE LET Tracked(ax, e1) ==
                 IF ~Ok(e1) THEN e1
                 ELSE PotCorrLoop(e1, o, Tail(axes), lattice, pos, Append(tracker, e1.val))
             AlongAxis(ax) ==
                 Tracked(ax, perform_pot_corr(e, o.dielectric, e.p["axis_grid"][ax + 1],
                                              e.p["bulk_planar_averages"][ax + 1],
                                              e.p["defect_planar_averages"][ax + 1],
                                              lattice, charge, pos, ax))
         IN  AlongAxis(Head(axes))

\* a variant that divides by the charge, not by minus the charge
PotalignByCharge(pot_corr, q) == IF q # 0 THEN FDiv(pot_corr, q) ELSE 0

Potalign(pot_corr, q) == IF q # 0 THEN FDiv(pot_corr, 0 - q) ELSE 0

\* FreysoldtCorrection.get_correction of the object o (dielectric, axis), whose
\* self.metadata is e.fc
FreysoldtGetCorrection(e0, o) ==
    LET e == Counted(e0, "freysoldt")
        planar == <<"axis_grid", "bulk_planar_averages", "defect_planar_averages">>
        axes == IF o.axis.kind = "None" THEN [i \in 1..Len(e.p["axis_grid"]) |-> i - 1]
                ELSE o.axis.v
        lattice == e.p["initial_defect_structure"].lattice
        pos == e.p["defect_frac_sc_coords"]
        es_corr == perform_es_corr(lattice, charge, o.dielectric)
        Corrected(e1, pot_corr) ==
            IF ~Ok(e1) THEN e1
            ELSE [e1 EXCEPT !.p = Update(e1.p, [freysoldt_meta |-> e1.fc,
                                                potalign |-> Potalign(pot_corr, charge)]),
                            !.val = 0,
                            !.ret = [freysoldt_electrostatic |-> es_corr,
                                     freysoldt_potential_alignment |-> pot_corr]]
        Averaged(e1) == Corrected(e1, IF Ok(e1) THEN Mean(e1.val) ELSE 0)
    IN  IF o.axis.kind = "int" THEN Raise(e, "TypeError")
        ELSE IF ~HasAll(e.p, planar) THEN Raise(e, "KeyError")
        ELSE IF \E i \in 1..Len(axes) : axes[i] + 1 \notin 1..Len(e.p["axis_grid"])
            THEN Raise(e, "IndexError")
        ELSE IF ~HasAll(e.p, <<"initial_defect_structure", "defect_frac_sc_coords">>)
            THEN Raise(e, "KeyError")
        ELSE Averaged(PotCorrLoop(e, o, axes, lattice, pos, <<>>))

----------------------------------------------------------------------------
(* KumagaiCorrection (corrections.py)                                      *)
(*                                                                         *)
(* A structure is a lattice and a chain of sites: each site has its        *)
(* fractional coordinate x along the first axis and vpc, the anisotropic   *)
(* lattice sum (real + reciprocal + potential shift) times kumagai_to_V of *)
(* a unit charge at that site.  lattice.es[i] is real + reciprocal sum +   *)
(* potential shift + self interaction at the i-th of the precisions        *)
(* 25, 28, 30, 35, in units of the convergence tolerance.  gamma and       *)
(* sampling_radius None are 0 (both are tested by "if not").               *)

es_tolerance == 1

kumagai_to_V == 2

FreshKCMetadata(gamma, sampling_radius) ==
    [gamma |-> gamma, sampling_radius |-> sampling_radius, potalign |-> "None"]

\* site.distance_and_image_from_frac_coords(defect_frac_coords)[0]
DistToDefect(lattice, x, pos) ==
    LET d == (x - pos[1]) % FracDen
        m == IF d > FracDen - d THEN FracDen - d ELSE d
    IN  FDiv(m * lattice.abc[1], FracDen)

\* lattice.get_wigner_seitz_cell(): the least distance to a facet midpoint
WignerSeitzRadius(lattice) == MinSeq(lattice.abc) \div 2

Sampled(dist_to_defect, sampling_radius) == dist_to_defect > sampling_radius

RECURSIVE ForCorrection(_, _, _, _, _)
ForCorrection(site_list, lattice, pos, sampling_radius, q) ==
    IF site_list = <<>> THEN <<>>
    ELSE LET site == Head(site_list)
             rest == ForCorrection(Tail(site_list), lattice, pos, sampling_radius, q)
             Vpc == site.vpc * q
         IN  IF Sampled(DistToDefect(lattice, site.x, pos), sampling_radius)
                 THEN <<site.Vqb - Vpc>> \o rest
             ELSE rest

PotDict(site_list, lattice, pos, q) ==
    [i \in {site_list[j].index : j \in 1..Len(site_list)} |->
        LET site == CHOOSE t \in {site_list[j] : j \in 1..Len(site_list)} : t.index = i
        IN  [Vpc |-> site.vpc * q, Vqb |-> site.Vqb,
             dist_to_defect |-> DistToDefect(lattice, site.x, pos)]]

\* kumagai_perform_pot_corr with the size of the charge in the correction
kumagai_perform_pot_corr_abs_charge(e, lattice, pos, site_list, sampling_radius, q) ==
    LET Recorded(for_correction, pot_alignment) ==
            IF for_correction = <<>>
                THEN Raise([e EXCEPT !.kc = Put(e.kc, "potalign", pot_alignment)],
                           "ValueError")
            ELSE [e EXCEPT !.kc = Update(e.kc,
                                         [potalign |-> pot_alignment,
                                          pot_corr_uncertainty_md |->
                                              [stats |-> Describe(for_correction),
                                               number_sampled |-> Len(for_correction)],
                                          pot_plot_data |->
                                              PotDict(site_list, lattice, pos, q)]),
                          !.val = (0 - Abs(q)) * pot_alignment]
        Aligned(for_correction) ==
            Recorded(for_correction,
                     IF Len(for_correction) # 0 THEN Mean(for_correction) ELSE 0)
    IN  Aligned(ForCorrection(site_list, lattice, pos, sampling_radius, q))

\* KumagaiCorrection.perform_pot_corr: self.metadata is e.kc
kumagai_perform_pot_corr(e, lattice, pos, site_list, sampling_radius, q) ==
    LET Recorded(for_correction, pot_alignment) ==
            IF for_correction = <<>>
                THEN Raise([e EXCEPT !.kc = Put(e.kc, "potalign", pot_alignment)],
                           "ValueError")
            ELSE [e EXCEPT !.kc = Update(e.kc,
                                         [potalign |-> pot_alignment,
                                          pot_corr_uncertainty_md |->
                                              [stats |-> Describe(for_correction),
                                               number_sampled |-> Len(for_correction)],
                                          pot_plot_data |->
                                              PotDict(site_list, lattice, pos, q)]),
                          !.val = (0 - q) * pot_alignment]
        Aligned(for_correction) ==
            Recorded(for_correction,
                     IF Len(for_correction) # 0 THEN Mean(for_correction) ELSE 0)
    IN  Aligned(ForCorrection(site_list, lattice, pos, sampling_radius, q))

Converged(a, b) == ~(Abs(a - b) > es_tolerance)

StillNotConverged(a, b) == Abs(a - b) < es_tolerance

KumagaiEs(es, q) == FDiv(es * (0 - q * q) * kumagai_to_V, 2)

KumagaiRequired == <<"bulk_atomic_site_averages", "defect_atomic_site_averages",
                     "site_matching_indices", "initial_defect_structure",
                     "defect_frac_sc_coords">>

\* KumagaiCorrection.get_correction of the object o (dielectric), whose
\* self.metadata is e.kc
KumagaiGetCorrection(e0, o) ==
    LET e == Counted(e0, "kumagai")
        structure == e.p["initial_defect_structure"]
        lattice == structure.lattice
        pos == e.p["defect_frac_sc_coords"]
        bulk == e.p["bulk_atomic_site_averages"]
        def == e.p["defect_atomic_site_averages"]
        match == e.p["site_matching_indices"]
        first == Converged(lattice.es[1], lattice.es[2])
        es_corr == KumagaiEs(IF first THEN lattice.es[1] ELSE lattice.es[3], charge)
        site_list == [j \in 1..Len(match) |->
                         [index |-> match[j][2],
                          x |-> structure.sites[match[j][2] + 1].x,
                          vpc |-> structure.sites[match[j][2] + 1].vpc,
                          Vqb |-> 0 - (def[match[j][2] + 1] - bulk[match[j][1] + 1])]]
        \* lines 453-456
        Corrected(e1) ==
            IF ~Ok(e1) THEN e1
            ELSE [e1 EXCEPT !.p = Update(e1.p, [kumagai_meta |-> e1.kc,
                                                potalign |-> Potalign(e1.val, charge)]),
                            !.val = 0,
                            !.ret = [kumagai_electrostatic |-> es_corr,
                                     kumagai_potential_alignment |-> e1.val]]
        \* lines 434-451, with self.metadata kcr
        Sample(kcr) ==
            IF \E j \in 1..Len(match) :
                   \/ match[j][2] + 1 \notin 1..Len(def)
                   \/ match[j][1] + 1 \notin 1..Len(bulk)
                   \/ match[j][2] + 1 \notin 1..Len(structure.sites)
                THEN Raise([e EXCEPT !.kc = kcr], "IndexError")
            ELSE Corrected(kumagai_perform_pot_corr([e EXCEPT !.kc = kcr], lattice, pos,
                                                    site_list, kcr["sampling_radius"],
                                                    charge))
        \* lines 411-440, with self.metadata kcg
        Converge(kcg) ==
            IF ~first /\ StillNotConverged(lattice.es[3], lattice.es[4])
                THEN Raise([e EXCEPT !.kc = kcg], "ValueError")
            ELSE Sample(Put(kcg, "sampling_radius",
                            IF kcg["sampling_radius"] = 0 THEN WignerSeitzRadius(lattice)
                            ELSE kcg["sampling_radius"]))
    IN  IF ~HasAll(e.p, KumagaiRequired) THEN Raise(e, "KeyError")
        ELSE Converge(Put(e.kc, "gamma",
                          IF e.kc["gamma"] = 0 THEN lattice.gamma ELSE e.kc["gamma"]))

----------------------------------------------------------------------------
(* BandFillingCorrection (corrections.py)                                  *)
(*                                                                         *)
(* eigenvalues is the sequence of its spin channels (the dict's values in  *)
(* order), each a sequence over k-points of sequences of <<eig, occu>>.    *)
(* Occupations and k-point weights are whole numbers.                      *)

resolution == 1

\* BandTerm with the electrons counted from the valence band edge
BandTermElectronAboveVbm(eig, occu, weight, spinfctr, core, shifted_cbm, shifted_vbm) ==
    IF occu # 0 /\ eig > shifted_vbm - resolution
        THEN [corr |-> weight * spinfctr * occu * (eig - shifted_cbm),
              elec |-> weight * spinfctr * occu, hole |-> 0]
    ELSE IF occu # core /\ eig <= shifted_vbm + resolution
        THEN [corr |-> weight * spinfctr * (core - occu) * (shifted_vbm - eig),
              elec |-> 0, hole |-> weight * spinfctr * (core - occu)]
    ELSE [corr |-> 0, elec |-> 0, hole |-> 0]

\* what one state adds to bf_corr, num_elec_cbm and num_hole_vbm
BandTerm(eig, occu, weight, spinfctr, core, shifted_cbm, shifted_vbm) ==
    IF occu # 0 /\ eig > shifted_cbm - resolution
        THEN [corr |-> weight * spinfctr * occu * (eig - shifted_cbm),
              elec |-> weight * spinfctr * occu, hole |-> 0]
    ELSE IF occu # core /\ eig <= shifted_vbm + resolution
        THEN [corr |-> weight * spinfctr * (core - occu) * (shifted_vbm - eig),
              elec |-> 0, hole |-> weight * spinfctr * (core - occu)]
    ELSE [corr |-> 0, elec |-> 0, hole |-> 0]

AddTerms(a, b) == [corr |-> a.corr + b.corr, elec |-> a.elec + b.elec,
                   hole |-> a.hole + b.hole]

RECURSIVE KptTerms(_, _, _, _, _, _)
KptTerms(kptset, weight, spinfctr, core, shifted_cbm, shifted_vbm) ==
    IF kptset = <<>> THEN [corr |-> 0, elec |-> 0, hole |-> 0]
    ELSE AddTerms(BandTerm(kptset[1][1], kptset[1][2], weight, spinfctr, core,
                           shifted_cbm, shifted_vbm),
                  KptTerms(Tail(kptset), weight, spinfctr, core, shifted_cbm, shifted_vbm))

\* zip(spinset, kpoint_weights) stops at the shorter of the two
RECURSIVE SpinTerms(_, _, _, _, _, _)
SpinTerms(spinset, kpoint_weights, spinfctr, core, shifted_cbm, shifted_vbm) ==
    IF spinset = <<>> \/ kpoint_weights = <<>> THEN [corr |-> 0, elec |-> 0, hole |-> 0]
    ELSE AddTerms(KptTerms(Head(spinset), Head(kpoint_weights), spinfctr, core,
                           shifted_cbm, shifted_vbm),
                  SpinTerms(Tail(spinset), Tail(kpoint_weights), spinfctr, core,
                            shifted_cbm, shifted_vbm))

RECURSIVE AllTerms(_, _, _, _, _, _)
AllTerms(eigenvalues, kpoint_weights, spinfctr, core, shifted_cbm, shifted_vbm) ==
    IF eigenvalues = <<>> THEN [corr |-> 0, elec |-> 0, hole |-> 0]
    ELSE AddTerms(SpinTerms(Head(eigenvalues), kpoint_weights, spinfctr, core,
                            shifted_cbm, shifted_vbm),
                  AllTerms(Tail(eigenvalues), kpoint_weights, spinfctr, core,
                           shifted_cbm, shifted_vbm))

\* SpinFactor that doubles every single spin channel
SpinFactorIgnoringOccupation(nspin, core) == IF nspin = 1 THEN 2 ELSE 1

SpinFactor(nspin, core) == IF nspin = 1 THEN (IF core = 1 THEN 2 ELSE 1) ELSE 1

\* perform_bandfill_corr: the correction and the metadata it leaves in self
perform_bandfill_corr(eigenvalues, kpoint_weights, potalign, vbm, cbm) ==
    LET core == eigenvalues[1][1][1][2]
        Summed(t) ==
            [bf_corr |-> 0 - t.corr,
             metadata |-> [potalign |-> potalign, num_hole_vbm |-> t.hole,
                           num_elec_cbm |-> t.elec]]
    IN  Summed(AllTerms(eigenvalues, kpoint_weights, SpinFactor(Len(eigenvalues), core),
                        core, potalign + cbm, potalign + vbm))

BandFillingRequired == <<"eigenvalues", "kpoint_weights", "potalign", "vbm", "cbm">>

\* BandFillingCorrection.get_correction of a fresh object
BandFillingGetCorrection(e0) ==
    LET e == Counted(e0, "bandfilling")
        eigenvalues == e.p["eigenvalues"]
        Corrected(r) ==
            [e EXCEPT !.p = Put(e.p, "bandfilling_meta", r.metadata),
                      !.ret = [bandfilling_correction |-> r.bf_corr]]
    IN  IF ~HasAll(e.p, BandFillingRequired) THEN Raise(e, "KeyError")
        ELSE IF eigenvalues = <<>> \/ eigenvalues[1] = <<>> \/ eigenvalues[1][1] = <<>>
            THEN Raise(e, "IndexError")
        ELSE IF Len(eigenvalues) > 2 THEN Raise(e, "ValueError")
        ELSE Corrected(perform_bandfill_corr(eigenvalues, e.p["kpoint_weights"],
                                             e.p["potalign"], e.p["vbm"], e.p["cbm"]))

----------------------------------------------------------------------------
(* BandEdgeShiftingCorrection (corrections.py)                             *)

BandEdgeRequired == <<"hybrid_cbm", "hybrid_vbm", "vbm", "cbm">>

\* BandEdgeShiftingGetCorrection with the correction taken from the CBM shift
BandEdgeShiftingByCbmShift(e0) ==
    LET e == Counted(e0, "bandedgeshifting")
        metadata == [vbmshift |-> e.p["hybrid_vbm"] - e.p["vbm"],
                     cbmshift |-> e.p["hybrid_cbm"] - e.p["cbm"]]
    IN  IF ~HasAll(e.p, BandEdgeRequired) THEN Raise(e, "KeyError")
        ELSE [e EXCEPT !.p = Put(e.p, "bandshift_meta", metadata),
                       !.val = metadata,
                       !.ret = [bandedgeshifting_correction |-> charge * metadata.cbmshift]]

\* BandEdgeShiftingCorrection.get_correction of a fresh object; e.val is the
\* object's metadata afterwards
BandEdgeShiftingGetCorrection(e0) ==
    LET e == Counted(e0, "bandedgeshifting")
        metadata == [vbmshift |-> e.p["hybrid_vbm"] - e.p["vbm"],
                     cbmshift |-> e.p["hybrid_cbm"] - e.p["cbm"]]
    IN  IF ~HasAll(e.p, BandEdgeRequired) THEN Raise(e, "KeyError")
        ELSE [e EXCEPT !.p = Put(e.p, "bandshift_meta", metadata),
                       !.val = metadata,
                       !.ret = [bandedgeshifting_correction |-> charge * metadata.vbmshift]]

----------------------------------------------------------------------------
(* DefectCompatibility (compatibility.py): running the corrections         *)

\* the methods the class defines: self.<name> of any other name raises
DefectCompatibilityMethods ==
    {"process_entry", "perform_all_corrections", "perform_freysoldt",
     "perform_kumagai", "run_bandfilling", "run_band_edge_shifting",
     "delocalization_analysis", "is_freysoldt_delocalized",
     "is_kumagai_delocalized", "is_final_relaxed_structure_delocalized"}

\* the keyword arguments KumagaiCorrection.__init__ accepts
KumagaiInitArgs == {"dielectric_tensor", "sampling_radius", "gamma"}

NoAxis == [kind |-> "None", v |-> <<>>]

perform_freysoldt(e) ==
    LET \* lines 189-193: e1 is the entry after get_correction
        Recorded(e1) ==
            IF ~Ok(e1) THEN [e1 EXCEPT !.fc = e.fc]
            ELSE [e1 EXCEPT !.p = Put(e1.p, "freysoldt_meta",
                                      Update(e1.fc,
                                             [freysoldt_potalign |-> e1.p["potalign"],
                                              freysoldt_electrostatic |->
                                                  e1.ret["freysoldt_electrostatic"],
                                              freysoldt_potential_alignment_correction |->
                                                  e1.ret["freysoldt_potential_alignment"]])),
                            !.fc = e.fc, !.ret = EmptyDict]
    IN  IF ~Has(e.p, "dielectric") THEN Raise(e, "KeyError")
        ELSE Recorded(FreysoldtGetCorrection([e EXCEPT !.fc = FreshFCMetadata],
                                             [dielectric |-> e.p["dielectric"],
                                              axis |-> NoAxis]))

perform_kumagai(e) ==
    LET gamma == IF Has(e.p, "gamma") THEN e.p["gamma"] ELSE 0
        \* lines 206-211: e1 is the entry after get_correction
        Recorded(e1) ==
            IF ~Ok(e1) THEN [e1 EXCEPT !.kc = e.kc]
            ELSE [e1 EXCEPT !.p = Put(e1.p, "kumagai_meta",
                                      Update(Without(e1.kc, "g_sum"),
                                             [kumagai_potalign |-> e1.p["potalign"],
                                              kumagai_electrostatic |->
                                                  e1.ret["kumagai_electrostatic"],
                                              kumagai_potential_alignment_correction |->
                                                  e1.ret["kumagai_potential_alignment"]])),
                            !.kc = e.kc, !.ret = EmptyDict]
    IN  IF ~Has(e.p, "dielectric") THEN Raise(e, "KeyError")
        ELSE IF ~Has(e.p, "g_sum") /\ ~Has(e.p, "dim") THEN Raise(e, "KeyError")
        ELSE IF "g_sum" \notin KumagaiInitArgs THEN Raise(e, "TypeError")
        ELSE Recorded(KumagaiGetCorrection([e EXCEPT !.kc = FreshKCMetadata(gamma, 0)],
                                           [dielectric |-> e.p["dielectric"]]))

run_bandfilling(e) ==
    LET \* lines 220-225, with the dict bandfilling_meta of line 218
        Recorded(e1, bandfilling_meta) ==
            IF ~HasAll(bandfilling_meta, <<"num_hole_vbm", "num_elec_cbm">>)
                THEN Raise(e1, "KeyError")
            ELSE [e1 EXCEPT !.p = Update(e1.p,
                                         [bandfilling_meta |-> bandfilling_meta,
                                          num_hole_vbm |-> bandfilling_meta["num_hole_vbm"],
                                          num_elec_cbm |-> bandfilling_meta["num_elec_cbm"]]),
                            !.ret = EmptyDict]
        \* lines 218-219: e1 is the entry after get_correction
        Read(e1) ==
            IF ~Ok(e1) THEN e1
            ELSE IF ~Has(e1.ret, "bandfilling") THEN Raise(e1, "KeyError")
            ELSE Recorded(e1, Put(e1.p, "bandfilling_correction", e1.ret["bandfilling"]))
    IN  Read(BandFillingGetCorrection(e))

run_band_edge_shifting(e) ==
    LET \* lines 231-235: e1 is the entry after get_correction
        Recorded(e1) ==
            IF ~Ok(e1) THEN e1
            ELSE [e1 EXCEPT !.p = Put(e1.p, "bandedgeshift_meta", Update(e1.val, e1.ret)),
                            !.val = 0, !.ret = EmptyDict]
    IN  Recorded(BandEdgeShiftingGetCorrection(e))

\* self.<name>(defect_entry): an attribute the class lacks raises
CallSelf(e, name, Method(_)) ==
    IF name \in DefectCompatibilityMethods THEN Method(e) ELSE Raise(e, "AttributeError")

required_frey_params ==
    <<"axis_grid", "bulk_planar_averages", "defect_planar_averages", "dielectric">>

required_kumagai_params ==
    <<"dim", "bulk_atomic_site_averages", "defect_atomic_site_averages",
      "site_matching_indices", "dielectric">>

required_bandfilling_params == <<"eigenvalues", "kpoint_weights", "potalign", "vbm", "cbm">>

required_bandedge_shifting_params ==
    <<"hybrid_cbm", "hybrid_vbm", "num_hole_vbm", "num_elec_cbm", "vbm", "cbm">>

ConsiderFreysoldt(e) ==
    IF ~HasAll(e.p, required_frey_params) THEN e
    ELSE IF ~Has(e.p, "freysoldt_meta") THEN CallSelf(e, "run_freysoldt", perform_freysoldt)
    ELSE e

ConsiderKumagai(e) ==
    IF ~HasAll(e.p, required_kumagai_params) THEN e
    ELSE IF ~Has(e.p, "kumagai_meta") THEN CallSelf(e, "run_kumagai", perform_kumagai)
    ELSE e

ConsiderBandfilling(e) ==
    IF ~HasAll(e.p, required_bandfilling_params) THEN e
    ELSE IF ~Has(e.p, "bandfilling_meta") THEN CallSelf(e, "run_bandfilling", run_bandfilling)
    ELSE e

ConsiderBandEdgeShifting(e) ==
    IF ~HasAll(e.p, required_bandedge_shifting_params) THEN e
    ELSE IF ~Has(e.p, "bandedgeshift_meta")
        THEN CallSelf(e, "run_band_edge_shifting", run_band_edge_shifting)
    ELSE e

perform_all_corrections(e) ==
    Then(Then(Then(ConsiderFreysoldt(e), ConsiderKumagai), ConsiderBandfilling),
         ConsiderBandEdgeShifting)

----------------------------------------------------------------------------
(* DefectCompatibility (compatibility.py): delocalization analysis         *)

\* parameters.update({'delocalization_meta': {channel: record}})
WriteChannel(e, channel, is_compatible, metadata) ==
    [e EXCEPT !.p = Put(e.p, "delocalization_meta",
                        Put(EmptyDict, channel,
                            [is_compatible |-> is_compatible, metadata |-> metadata])),
              !.checks = e.checks \cup {channel}]

Window(stats) == Abs(stats.minmax[2] - stats.minmax[1])

FreyAxisMeta(o, freystats) ==
    [frey_variance_compatible |-> LeqNan(freystats.variance, o.plnr_avg_var_tol),
     frey_variance |-> freystats.variance,
     plnr_avg_var_tol |-> o.plnr_avg_var_tol,
     frey_minmax_compatible |-> Window(freystats) <= o.plnr_avg_minmax_tol,
     frey_minmax_window |-> Window(freystats),
     plnr_avg_minmax_tol |-> o.plnr_avg_minmax_tol]

\* the loop "for ax in range(3)" of is_freysoldt_delocalized from axis ax on
RECURSIVE FreyAxisLoop(_, _, _, _, _)
FreyAxisLoop(e, o, ax, plnr_avg_analyze_meta, plnr_avg_allows_compatible) ==
    IF ax = 3
        THEN WriteChannel(e, "plnr_avg", plnr_avg_allows_compatible, plnr_avg_analyze_meta)
    ELSE IF ~Has(e.p["freysoldt_meta"], "pot_corr_uncertainty_md")
        THEN Raise(e, "KeyError")
    ELSE IF ~Has(e.p["freysoldt_meta"]["pot_corr_uncertainty_md"], ax)
        THEN Raise(e, "KeyError")
    ELSE IF ~Has(plnr_avg_analyze_meta, ax) THEN Raise(e, "KeyError")
    ELSE LET m == FreyAxisMeta(o, e.p["freysoldt_meta"]["pot_corr_uncertainty_md"][ax].stats)
         IN  FreyAxisLoop(e, o, ax + 1,
                          Put(plnr_avg_analyze_meta, ax, Update(plnr_avg_analyze_meta[ax], m)),
                          plnr_avg_allows_compatible /\ m.frey_variance_compatible
                              /\ m.frey_minmax_compatible)

is_freysoldt_delocalized(e) ==
    IF ~Has(e.p, "freysoldt_meta") THEN Raise(e, "KeyError")
    ELSE FreyAxisLoop(e, dc, 0, EmptyDict, TRUE)

\* a variant that accepts every window
KumagaiSiteMetaAnyWindow(o, kumagaistats) ==
    [kumagai_variance_compatible |-> LeqNan(kumagaistats.variance, o.atomic_site_var_tol),
     kumagai_variance |-> kumagaistats.variance,
     atomic_site_var_tol |-> o.atomic_site_var_tol,
     kumagai_minmax_compatible |-> TRUE,
     kumagai_minmax_window |-> Window(kumagaistats),
     plnr_avg_minmax_tol |-> o.atomic_site_minmax_tol]

KumagaiSiteMeta(o, kumagaistats) ==
    [kumagai_variance_compatible |-> LeqNan(kumagaistats.variance, o.atomic_site_var_tol),
     kumagai_variance |-> kumagaistats.variance,
     atomic_site_var_tol |-> o.atomic_site_var_tol,
     kumagai_minmax_compatible |-> Window(kumagaistats) <= o.atomic_site_minmax_tol,
     kumagai_minmax_window |-> Window(kumagaistats),
     plnr_avg_minmax_tol |-> o.atomic_site_minmax_tol]

is_kumagai_delocalized(e) ==
    IF ~Has(e.p, "kumagai_meta") THEN Raise(e, "KeyError")
    ELSE IF ~Has(e.p["kumagai_meta"], "pot_corr_uncertainty_md") THEN Raise(e, "KeyError")
    ELSE LET m == KumagaiSiteMeta(dc, e.p["kumagai_meta"]["pot_corr_uncertainty_md"].stats)
         IN  WriteChannel(e, "atomic_site",
                          m.kumagai_variance_compatible /\ m.kumagai_minmax_compatible, m)

\* lattice.get_all_distance: periodic distance of two fractional coordinates
PeriodicDistance(lattice, a, b) ==
    LET d == (a - b) % FracDen
        m == IF d > FracDen - d THEN FracDen - d ELSE d
    IN  FDiv(m * lattice.abc[1], FracDen)

\* list comparison of two rows [distance to defect, distance travelled, index]
RowLess(r, t) ==
    \/ r[1] < t[1]
    \/ r[1] = t[1] /\ r[2] < t[2]
    \/ r[1] = t[1] /\ r[2] = t[2] /\ r[3] < t[3]

RECURSIVE InsertRow(_, _)
InsertRow(sorted, r) ==
    IF sorted = <<>> THEN <<r>>
    ELSE IF RowLess(r, Head(sorted)) THEN <<r>> \o sorted
    ELSE <<Head(sorted)>> \o InsertRow(Tail(sorted), r)

RECURSIVE SortRows(_)
SortRows(rows) == IF rows = <<>> THEN <<>> ELSE InsertRow(SortRows(Tail(rows)), Head(rows))

RECURSIVE SumColumn(_, _)
SumColumn(rows, k) == IF rows = <<>> THEN 0 ELSE Head(rows)[k] + SumColumn(Tail(rows), k)

OutsideRadius(row, radius_to_sample) == row[1] > radius_to_sample

RECURSIVE RowsOutside(_, _)
RowsOutside(rows, radius_to_sample) ==
    IF rows = <<>> THEN <<>>
    ELSE IF OutsideRadius(Head(rows), radius_to_sample)
        THEN <<Head(rows)>> \o RowsOutside(Tail(rows), radius_to_sample)
    ELSE RowsOutside(Tail(rows), radius_to_sample)

\* 100 * distance / totpert, in units of 0.01 percent; 0 / 0 is nan
Percentage(distance, totpert) ==
    IF totpert = 0 THEN NaN ELSE FDiv(100 * 100 * distance, totpert)

SiteRelaxCompatible(defect_relax_amount, o) == defect_relax_amount <= o.defect_tot_relax_tol

is_final_relaxed_structure_delocalized(e) ==
    LET initial == defect_sc.structure
        final == e.p["final_structure"]
        n == Len(initial.sites)
        vacancy == defect_type = "Vacancy"
        defindex == defect_sc.defindex
        radius_to_sample == e.p["kumagai_meta"]["sampling_radius"]
        dist(i, j) == PeriodicDistance(initial.lattice, final.sites[i + 1].x,
                                       initial.sites[j + 1].x)
        inds == SelectSeq([i \in 1..n |-> i - 1], LAMBDA i : vacancy \/ i # defindex)
        \* lines 390-406: the defect site's own relaxation
        SiteChecked(e1, defect_relax_amount) ==
            IF vacancy
                THEN WriteChannel(e1, "defectsite_relax", TRUE,
                                  [relax_amount |-> "None",
                                   defect_tot_relax_tol |-> dc.defect_tot_relax_tol])
            ELSE WriteChannel(e1, "defectsite_relax",
                              SiteRelaxCompatible(defect_relax_amount, dc),
                              [relax_amount |-> defect_relax_amount,
                               defect_tot_relax_tol |-> dc.defect_tot_relax_tol])
        \* lines 374-388
        Judged(distdata, tot_relax_outside_wsrad, perc_relax_outside_wsrad,
               structure_tot_relax_compatible, structure_perc_relax_compatible) ==
            SiteChecked(
                WriteChannel(e, "structure_relax",
                             structure_tot_relax_compatible /\ structure_perc_relax_compatible,
                             [structure_tot_relax_compatible |-> structure_tot_relax_compatible,
                              tot_relax_outside_wsrad |-> tot_relax_outside_wsrad,
                              tot_relax_tol |-> dc.tot_relax_tol,
                              structure_perc_relax_compatible |->
                                  structure_perc_relax_compatible,
                              perc_relax_outside_wsrad |-> perc_relax_outside_wsrad,
                              perc_relax_tol |-> dc.perc_relax_tol,
                              full_structure_relax_data |-> distdata,
                              defect_index |-> IF vacancy THEN "None" ELSE defindex]),
                IF vacancy THEN 0 ELSE dist(defindex, defindex))
        Summed(distdata, tot_relax_outside_wsrad, perc_relax_outside_wsrad) ==
            Judged(distdata, tot_relax_outside_wsrad, perc_relax_outside_wsrad,
                   tot_relax_outside_wsrad <= dc.tot_relax_tol,
                   LeqNan(perc_relax_outside_wsrad, dc.perc_relax_tol))
        \* lines 366-372: the loop over the sorted rows
        Accumulated(distdata, totpert, outside) ==
            Summed(distdata, SumColumn(outside, 2),
                   IF outside # <<>> /\ totpert = 0 THEN NaN ELSE SumColumn(outside, 4))
        WithPercentage(distdata, totpert) ==
            Accumulated(distdata, totpert, RowsOutside(distdata, radius_to_sample))
        Sorted(rows, totpert) ==
            WithPercentage([k \in 1..Len(rows) |->
                               Append(rows[k], Percentage(rows[k][2], totpert))],
                           totpert)
        \* lines 354-363; a vacancy has defindex None: distmatrix[ind, None] is
        \* the row of ind
        Collected(rows) ==
            Sorted(SortRows(rows), SumSeq([k \in 1..Len(inds) |-> dist(inds[k], inds[k])]))
    IN  IF ~Has(e.p, "final_structure") THEN Raise(e, "KeyError")
        ELSE IF ~Has(e.p, "kumagai_meta") THEN Raise(e, "KeyError")
        ELSE IF ~Has(e.p["kumagai_meta"], "sampling_radius") THEN Raise(e, "KeyError")
        ELSE IF Len(final.sites) < n THEN Raise(e, "IndexError")
        ELSE IF vacancy /\ n >= 2 THEN Raise(e, "ValueError")
        ELSE Collected([k \in 1..Len(inds) |->
                           <<IF vacancy THEN dist(inds[k], 0) ELSE dist(inds[k], defindex),
                             dist(inds[k], inds[k]), inds[k]>>])

AnalyzeFreysoldt(e) ==
    IF Has(e.p, "freysoldt_meta") THEN is_freysoldt_delocalized(e) ELSE e

AnalyzeKumagai(e) ==
    IF Has(e.p, "kumagai_meta") THEN is_kumagai_delocalized(e) ELSE e

AnalyzeStructure(e) ==
    IF Has(e.p, "final_defect_structure") /\ Has(e.p, "final_structure")
        THEN is_final_relaxed_structure_delocalized(e)
    ELSE e

\* the name is_compatible is bound nowhere: reading it raises
SetIsCompatible(e) == Raise(e, "NameError")

delocalization_analysis(e) ==
    Then(Then(Then(AnalyzeFreysoldt(e), AnalyzeKumagai), AnalyzeStructure), SetIsCompatible)

----------------------------------------------------------------------------
(* DefectCompatibility.process_entry                                       *)

\* 'freysoldt' in self.preferred_cc.lower()
NamesFreysoldt(preferred_cc) == preferred_cc \in {"freysoldt", "Freysoldt", "FREYSOLDT"}

TooManyFreeCharges(o, p) ==
    \/ o.free_chg_cutoff < p["num_hole_vbm"]
    \/ o.free_chg_cutoff < p["num_elec_cbm"]

\* lines 91-104: the charge correction; e.val is the dict `corrections`
ChargeCorrection(e) ==
    LET frey_meta == e.p["freysoldt_meta"]
        kumagai_meta == e.p["kumagai_meta"]
    IN  IF ~Has(e.p, "num_hole_vbm") THEN Raise(e, "KeyError")
        ELSE IF ~(dc.free_chg_cutoff < e.p["num_hole_vbm"]) /\ ~Has(e.p, "num_elec_cbm")
            THEN Raise(e, "KeyError")
        ELSE IF TooManyFreeCharges(dc, e.p) THEN [e EXCEPT !.val = EmptyDict]
        ELSE IF NamesFreysoldt(dc.preferred_cc) THEN
            IF ~Has(e.p, "freysoldt_meta") THEN Raise(e, "KeyError")
            ELSE IF ~HasAll(frey_meta, <<"freysoldt_electrostatic",
                                         "freysoldt_potential_alignment_correction">>)
                THEN Raise(e, "KeyError")
            ELSE [e EXCEPT !.val =
                     [charge_correction |->
                         frey_meta["freysoldt_electrostatic"]
                         + frey_meta["freysoldt_potential_alignment_correction"]]]
        ELSE
            IF ~Has(e.p, "kumagai_meta") THEN Raise(e, "KeyError")
            ELSE IF ~HasAll(kumagai_meta, <<"kumagai_electrostatic",
                                            "kumagai_potential_alignment_correction">>)
                THEN Raise(e, "KeyError")
            ELSE [e EXCEPT !.val =
                     [charge_correction |->
                         kumagai_meta["kumagai_electrostatic"]
                         + kumagai_meta["kumagai_potential_alignment_correction"]]]

\* lines 106-108
BandfillingPart(e) ==
    IF ~dc.use_bandfilling THEN e
    ELSE IF ~Has(e.p, "bandfilling_meta") THEN Raise(e, "KeyError")
    ELSE IF ~Has(e.p["bandfilling_meta"], "bandfilling_correction") THEN Raise(e, "KeyError")
    ELSE [e EXCEPT !.val = Put(e.val, "bandfilling_correction",
                               e.p["bandfilling_meta"]["bandfilling_correction"])]

\* lines 110-129
BandEdgeShiftPart(e) ==
    LET bandfill_meta == e.p["bandshift_meta"]
    IN  IF dc.use_bandedgeshift THEN
            IF ~Has(e.p, "bandshift_meta") THEN Raise(e, "KeyError")
            ELSE IF ~HasAll(bandfill_meta, <<"vbm_shift_correction",
                                             "hole_vbm_shift_correction",
                                             "elec_cbm_shift_correction">>)
                THEN Raise(e, "KeyError")
            ELSE IF ~HasAll(e.p, <<"hybrid_vbm", "hybrid_cbm">>)
                THEN Raise([e EXCEPT !.val =
                               Put(e.val, "bandedgeshifting_correction",
                                   bandfill_meta["vbm_shift_correction"]
                                   + bandfill_meta["hole_vbm_shift_correction"]
                                   + bandfill_meta["elec_cbm_shift_correction"])],
                           "KeyError")
            ELSE [e EXCEPT !.val =
                      Put(e.val, "bandedgeshifting_correction",
                          bandfill_meta["vbm_shift_correction"]
                          + bandfill_meta["hole_vbm_shift_correction"]
                          + bandfill_meta["elec_cbm_shift_correction"]),
                           !.p = Put(e.p, "phasediagram_meta",
                                     [vbm |-> e.p["hybrid_vbm"],
                                      gap |-> e.p["hybrid_cbm"] - e.p["hybrid_vbm"]])]
        ELSE IF ~HasAll(e.p, <<"vbm", "cbm">>) THEN Raise(e, "KeyError")
        ELSE [e EXCEPT !.p = Put(e.p, "phasediagram_meta",
                                 [vbm |-> e.p["vbm"], gap |-> e.p["cbm"] - e.p["vbm"]])]

\* line 131
UpdateCorrection(e) == [e EXCEPT !.c = Update(e.c, e.val), !.val = 0]

CallPerformCorrections(e) == CallSelf(e, "perform_corrections", perform_all_corrections)

process_entry(e) ==
    Then(Then(Then(Then(Then(CallPerformCorrections(e), delocalization_analysis),
                        ChargeCorrection),
                   BandfillingPart),
              BandEdgeShiftPart),
         UpdateCorrection)

----------------------------------------------------------------------------
(* The entries and objects the model starts from                           *)

Charges == (0 - MaxCharge)..MaxCharge

\* es: the four lattice sums; imag: the imaginary part of the first axis
LatticeOf(es, imag) ==
    [abc |-> <<NGX * 4, NGX * 3, NGX * 3>>,
     eiso |-> 30, eper |-> 10,
     Vlr |-> [ax \in 1..3 |-> [k \in 1..NGX |-> 2 * Abs((k - 1) - NGX \div 2)]],
     Vim |-> [ax \in 1..3 |-> IF ax = 1 THEN imag ELSE [k \in 1..NGX |-> 0]],
     gamma |-> 3,
     es |-> es]

ZeroImag == [k \in 1..NGX |-> 0]

Lattice0 == LatticeOf(<<5, 5, 5, 5>>, ZeroImag)

SitesOf(shift) == [i \in 1..NSites |-> [x |-> (3 * i + shift[i]) % FracDen, vpc |-> i]]

NoShift == [i \in 1..NSites |-> 0]

StructureOf(lattice, shift) == [lattice |-> lattice, sites |-> SitesOf(shift)]

AxisGrids == [ax \in 1..3 |-> [k \in 1..NGX |-> (k - 1) * (IF ax = 1 THEN 4 ELSE 3)]]

\* every input of the four corrections and of the delocalization checks
FullParameters(lattice, defavg, pos, siteavg, shift, carriers) ==
    [axis_grid |-> AxisGrids,
     bulk_planar_averages |-> [ax \in 1..3 |-> [k \in 1..NGX |-> 0]],
     defect_planar_averages |-> [ax \in 1..3 |-> defavg],
     dielectric |-> 2,
     dim |-> <<1, 1, 1>>,
     bulk_atomic_site_averages |-> [i \in 1..NSites |-> 0],
     defect_atomic_site_averages |-> siteavg,
     site_matching_indices |-> [i \in 1..NSites |-> <<i - 1, i - 1>>],
     initial_defect_structure |-> StructureOf(lattice, NoShift),
     defect_frac_sc_coords |-> pos,
     eigenvalues |-> << << << <<0 - 50, 2>>, <<120, 1>> >> >> >>,
     kpoint_weights |-> <<1>>,
     vbm |-> 0,
     cbm |-> 100,
     hybrid_vbm |-> 0 - 20,
     hybrid_cbm |-> 130,
     num_hole_vbm |-> carriers,
     num_elec_cbm |-> 0,
     final_defect_structure |-> StructureOf(lattice, shift),
     final_structure |-> StructureOf(lattice, shift)]

Restrict(d, ks) == [k \in DOMAIN d \cap ks |-> d[k]]

KeyGroups ==
    [frey |-> {"axis_grid", "bulk_planar_averages", "defect_planar_averages"},
     diel |-> {"dielectric"},
     kumagai |-> {"dim", "bulk_atomic_site_averages", "defect_atomic_site_averages",
                  "site_matching_indices"},
     struct |-> {"initial_defect_structure", "defect_frac_sc_coords"},
     band |-> {"eigenvalues", "kpoint_weights", "vbm", "cbm"},
     hybrid |-> {"hybrid_vbm", "hybrid_cbm"},
     carriers |-> {"num_hole_vbm", "num_elec_cbm"},
     final |-> {"final_defect_structure", "final_structure"}]

KeysOf(groups) == UNION {KeyGroups[g] : g \in groups}

DefaultCompatibility(preferred_cc, use_bandfilling, use_bandedgeshift) ==
    [plnr_avg_var_tol |-> 10, plnr_avg_minmax_tol |-> 10,
     atomic_site_var_tol |-> 10, atomic_site_minmax_tol |-> 10,
     tot_relax_tol |-> 10, perc_relax_tol |-> 10, defect_tot_relax_tol |-> 10,
     preferred_cc |-> preferred_cc, free_chg_cutoff |-> 2,
     use_bandfilling |-> use_bandfilling, use_bandedgeshift |-> use_bandedgeshift]

Ramp == [k \in 1..NGX |-> 3 * k]

SiteRamp == [i \in 1..NSites |-> 4 * i]

SmallShift == [i \in 1..NSites |-> IF i = 1 THEN 1 ELSE 0]

NoHistory ==
    /\ op = "init"
    /\ raised = "none"
    /\ ret = EmptyDict
    /\ correction = EmptyDict
    /\ pre_keys = DOMAIN parameters
    /\ calls = [k \in {"freysoldt", "kumagai", "bandfilling", "bandedgeshifting"} |-> 0]
    /\ checks = {}

\* the groups of inputs an entry of the orchestrator's runs may hold
Profiles ==
    {{"frey", "diel", "kumagai", "band", "hybrid", "carriers"},
     {"frey", "kumagai", "band", "hybrid", "carriers"},
     {"frey", "diel", "band"},
     {"frey", "diel"},
     {"kumagai", "diel", "carriers"},
     {"band", "hybrid", "carriers"},
     {"hybrid", "carriers"},
     {}}

Policies ==
    {DefaultCompatibility("freysoldt", TRUE, TRUE), DefaultCompatibility("kumagai", TRUE, TRUE),
     DefaultCompatibility("freysoldt", FALSE, FALSE),
     DefaultCompatibility("Kumagai", FALSE, TRUE)}

FreshObjects ==
    /\ FC = [dielectric |-> 2, axis |-> NoAxis, metadata |-> FreshFCMetadata]
    /\ KC = [dielectric |-> 2, metadata |-> FreshKCMetadata(0, 0)]

\* entries that hold one of the profiles of inputs, processed by a
\* DefectCompatibility object with one of the policies
Init ==
    /\ charge \in Charges
    /\ defect_type = "Substitution"
    /\ defect_sc = [structure |-> StructureOf(Lattice0, NoShift), defindex |-> 0]
    /\ dc \in Policies
    /\ \E groups \in Profiles, carriers \in {0, 3} :
           parameters = Restrict(FullParameters(Lattice0, Ramp, <<3, 0, 0>>, SiteRamp,
                                                SmallShift, carriers),
                                 KeysOf(groups \cup {"struct", "final"}))
    /\ FreshObjects
    /\ NoHistory

----------------------------------------------------------------------------
(* The calls                                                               *)

\* the entry and the objects after the call that ends in frame e
Commit(e, name) ==
    /\ parameters' = e.p
    /\ correction' = e.c
    /\ raised' = e.exc
    /\ ret' = IF Ok(e) THEN e.ret ELSE EmptyDict
    /\ FC' = [FC EXCEPT !.metadata = e.fc]
    /\ KC' = [KC EXCEPT !.metadata = e.kc]
    /\ calls' = e.calls
    /\ checks' = e.checks
    /\ op' = name
    /\ pre_keys' = DOMAIN parameters
    /\ UNCHANGED <<charge, defect_type, dc, defect_sc>>

ProcessEntry == Commit(process_entry(Frame), "process_entry")

PerformAllCorrections == Commit(perform_all_corrections(Frame), "perform_all_corrections")

PerformFreysoldt == Commit(perform_freysoldt(Frame), "perform_freysoldt")

PerformKumagai == Commit(perform_kumagai(Frame), "perform_kumagai")

RunBandfilling == Commit(run_bandfilling(Frame), "run_bandfilling")

RunBandEdgeShifting == Commit(run_band_edge_shifting(Frame), "run_band_edge_shifting")

DelocalizationAnalysis == Commit(delocalization_analysis(Frame), "delocalization_analysis")

IsFreysoldtDelocalized == Commit(is_freysoldt_delocalized(Frame), "is_freysoldt_delocalized")

IsKumagaiDelocalized == Commit(is_kumagai_delocalized(Frame), "is_kumagai_delocalized")

IsFinalRelaxedStructureDelocalized ==
    Commit(is_final_relaxed_structure_delocalized(Frame),
           "is_final_relaxed_structure_delocalized")

FreysoldtCorrectionGetCorrection ==
    Commit(FreysoldtGetCorrection(Frame, FC), "FreysoldtCorrection.get_correction")

KumagaiCorrectionGetCorrection ==
    Commit(KumagaiGetCorrection(Frame, KC), "KumagaiCorrection.get_correction")

BandFillingCorrectionGetCorrection ==
    Commit([BandFillingGetCorrection(Frame) EXCEPT !.val = 0],
           "BandFillingCorrection.get_correction")

BandEdgeShiftingCorrectionGetCorrection ==
    Commit([BandEdgeShiftingGetCorrection(Frame) EXCEPT !.val = 0],
           "BandEdgeShiftingCorrection.get_correction")

Next ==
    \/ ProcessEntry
    \/ PerformAllCorrections
    \/ PerformFreysoldt
    \/ PerformKumagai
    \/ RunBandfilling
    \/ RunBandEdgeShifting

Spec == Init /\ [][Next]_vars

----------------------------------------------------------------------------
(* The correction classes called directly                                  *)

Spike == [k \in 1..NGX |-> IF k = 1 THEN 3 ELSE 0]

Flat == [k \in 1..NGX |-> 7]

\* lattice sums, imaginary part, planar average, defect position, dielectric
\* and the arguments axis and sampling_radius of the constructors
CorrectionCases ==
    {[es |-> <<5, 5, 5, 5>>, imag |-> ZeroImag, defavg |-> Ramp, pos |-> <<3, 0, 0>>,
      dielectric |-> 2, axis |-> NoAxis, sampling_radius |-> 0],
     [es |-> <<5, 9, 7, 10>>, imag |-> ZeroImag, defavg |-> Flat, pos |-> <<0, 0, 0>>,
      dielectric |-> 1, axis |-> [kind |-> "list", v |-> <<0>>], sampling_radius |-> 5],
     [es |-> <<5, 9, 7, 7>>, imag |-> Spike, defavg |-> Ramp, pos |-> <<3, 0, 0>>,
      dielectric |-> 2, axis |-> NoAxis, sampling_radius |-> 0],
     [es |-> <<5, 5, 5, 5>>, imag |-> ZeroImag, defavg |-> Ramp, pos |-> <<14, 0, 0>>,
      dielectric |-> 3, axis |-> [kind |-> "int", v |-> <<>>],
      sampling_radius |-> 10 * NGX]}

InitCorr ==
    /\ charge \in Charges
    /\ defect_type = "Substitution"
    /\ defect_sc = [structure |-> StructureOf(Lattice0, NoShift), defindex |-> 0]
    /\ dc = DefaultCompatibility("freysoldt", TRUE, TRUE)
    /\ \E case \in CorrectionCases :
           /\ parameters =
                  Restrict(FullParameters(LatticeOf(case.es, case.imag), case.defavg,
                                          case.pos, SiteRamp, NoShift, 0),
                           KeysOf({"frey", "kumagai", "struct", "band", "hybrid"}))
           /\ FC = [dielectric |-> case.dielectric, axis |-> case.axis,
                    metadata |-> FreshFCMetadata]
           /\ KC = [dielectric |-> case.dielectric,
                    metadata |-> FreshKCMetadata(0, case.sampling_radius)]
    /\ NoHistory

NextCorr ==
    \/ FreysoldtCorrectionGetCorrection
    \/ KumagaiCorrectionGetCorrection
    \/ BandFillingCorrectionGetCorrection
    \/ BandEdgeShiftingCorrectionGetCorrection

SpecCorr == InitCorr /\ [][NextCorr]_vars

----------------------------------------------------------------------------
(* The delocalization checks called on entries whose corrections have run  *)

\* the frame of a call on an entry with parameters p and fresh objects
FrameOf(p) == [p |-> p, c |-> EmptyDict, exc |-> "none", ret |-> EmptyDict, val |-> 0,
               fc |-> FreshFCMetadata, kc |-> FreshKCMetadata(0, 0),
               calls |-> [k \in {"freysoldt", "kumagai", "bandfilling",
                                 "bandedgeshifting"} |-> 0],
               checks |-> {}]

Steep == [k \in 1..NGX |-> 40 * k]

SiteSteep == [i \in 1..NSites |-> 40 * i]

BigShift == [i \in 1..NSites |-> IF i = 1 THEN 0 ELSE 5]

WithTolerances(o, var_tol, minmax_tol) ==
    [o EXCEPT !.plnr_avg_var_tol = var_tol, !.plnr_avg_minmax_tol = minmax_tol,
              !.atomic_site_var_tol = var_tol, !.atomic_site_minmax_tol = minmax_tol]

DelocalizationPolicies ==
    {DefaultCompatibility("freysoldt", TRUE, TRUE),
     WithTolerances(DefaultCompatibility("freysoldt", TRUE, TRUE), 5, 100),
     WithTolerances(DefaultCompatibility("freysoldt", TRUE, TRUE), 100, 30)}

\* the entry after FreysoldtCorrection(dielectric).get_correction, when wanted
AfterFreysoldt(p, wanted) ==
    IF wanted
        THEN FreysoldtGetCorrection(FrameOf(p), [dielectric |-> 2, axis |-> NoAxis]).p
    ELSE p

\* the entry after KumagaiCorrection(dielectric, sampling_radius).get_correction
AfterKumagai(p, wanted, sampling_radius) ==
    IF wanted
        THEN KumagaiGetCorrection([FrameOf(p) EXCEPT
                                      !.kc = FreshKCMetadata(0, sampling_radius)],
                                  [dielectric |-> 2]).p
    ELSE p

InitDeloc ==
    /\ charge \in Charges
    /\ defect_type \in {"Substitution", "Vacancy"}
    /\ defect_sc = [structure |-> StructureOf(Lattice0, NoShift), defindex |-> 0]
    /\ dc \in DelocalizationPolicies
    /\ \E frey \in {<<FALSE, Ramp>>, <<TRUE, Ramp>>, <<TRUE, Steep>>},
          kum \in {<<FALSE, SiteRamp, 0>>, <<TRUE, SiteRamp, 0>>, <<TRUE, SiteRamp, 5>>,
                   <<TRUE, SiteSteep, 5>>},
          final \in {<<FALSE, NoShift>>, <<TRUE, NoShift>>, <<TRUE, SmallShift>>,
                     <<TRUE, BigShift>>} :
           parameters =
               AfterKumagai(
                   AfterFreysoldt(
                       Restrict(FullParameters(Lattice0, frey[2], <<3, 0, 0>>, kum[2],
                                               final[2], 0),
                                KeysOf({"frey", "kumagai", "struct"}
                                           \cup IF final[1] THEN {"final"} ELSE {})),
                       frey[1]),
                   kum[1], kum[3])
    /\ FreshObjects
    /\ NoHistory

NextDeloc ==
    \/ DelocalizationAnalysis
    \/ IsFreysoldtDelocalized
    \/ IsKumagaiDelocalized
    \/ IsFinalRelaxedStructureDelocalized

SpecDeloc == InitDeloc /\ [][NextDeloc]_vars

----------------------------------------------------------------------------
(* Properties of process_entry and perform_all_corrections (under Spec)    *)

\* the entry held, before the last call, every input of the four corrections
\* and of the delocalization checks
FullEntry == KeysOf(DOMAIN KeyGroups) \subseteq pre_keys

Required(ks) == {ks[i] : i \in 1..Len(ks)}

\* the keys the corrections themselves write into entry.parameters
CorrectionOutputKeys ==
    {"freysoldt_meta", "kumagai_meta", "bandfilling_meta", "bandedgeshift_meta",
     "bandshift_meta", "potalign", "num_hole_vbm", "num_elec_cbm"}

\* C1: process_entry on an entry that holds every required input returns
\* without raising, with parameters['is_compatible'] set and one value in the
\* correction map per enabled correction.
C1_ProcessEntryCompletes ==
    (op = "process_entry" /\ FullEntry) =>
        /\ raised = "none"
        /\ "is_compatible" \in DOMAIN parameters
        /\ ~TooManyFreeCharges(dc, parameters) => "charge_correction" \in DOMAIN correction
        /\ dc.use_bandfilling => "bandfilling_correction" \in DOMAIN correction
        /\ dc.use_bandedgeshift => "bandedgeshifting_correction" \in DOMAIN correction

\* C2: when the entry lacks 'dielectric', perform_all_corrections skips the
\* Kumagai correction and records a reason for the skip in the entry (a key
\* that is not the output of a correction); when the entry holds all keys the
\* Freysoldt correction requires, it stores the correction under freysoldt_meta.
C2_SkipRecordedAndFreysoldtStored ==
    op = "perform_all_corrections" =>
        /\ "dielectric" \notin pre_keys =>
               /\ "kumagai_meta" \notin DOMAIN parameters
               /\ \E k \in DOMAIN parameters \ pre_keys : k \notin CorrectionOutputKeys
        /\ (Required(required_frey_params) \subseteq pre_keys
                /\ "freysoldt_meta" \notin pre_keys) =>
               /\ raised = "none"
               /\ "freysoldt_meta" \in DOMAIN parameters

\* C3: perform_all_corrections runs a correction exactly when all of its
\* required keys are present and its cached output key is absent: afterwards
\* the output key of each such correction is in entry.parameters.
C3_RunsExactlyTheRunnable ==
    op = "perform_all_corrections" =>
        /\ (Required(required_frey_params) \subseteq pre_keys
                /\ "freysoldt_meta" \notin pre_keys)
               <=> "freysoldt_meta" \in DOMAIN parameters \ pre_keys
        /\ (Required(required_kumagai_params) \subseteq pre_keys
                /\ "kumagai_meta" \notin pre_keys)
               <=> "kumagai_meta" \in DOMAIN parameters \ pre_keys
        /\ (Required(required_bandedge_shifting_params) \subseteq pre_keys
                /\ "bandedgeshift_meta" \notin pre_keys)
               <=> "bandedgeshift_meta" \in DOMAIN parameters \ pre_keys

\* C4: after process_entry, the aggregated corrections hold no
\* charge_correction when num_hole_vbm or num_elec_cbm exceeds
\* free_chg_cutoff; otherwise charge_correction is the electrostatic plus the
\* potential-alignment term of the Freysoldt scheme when preferred_cc names
\* freysoldt, of the Kumagai scheme otherwise.
C4_ChargeCorrectionOfOneScheme ==
    (op = "process_entry" /\ FullEntry) =>
        IF TooManyFreeCharges(dc, parameters)
            THEN "charge_correction" \notin DOMAIN correction
        ELSE /\ "charge_correction" \in DOMAIN correction
             /\ IF NamesFreysoldt(dc.preferred_cc)
                    THEN /\ "freysoldt_meta" \in DOMAIN parameters
                         /\ correction["charge_correction"] =
                                parameters["freysoldt_meta"]["freysoldt_electrostatic"]
                                + parameters["freysoldt_meta"][
                                      "freysoldt_potential_alignment_correction"]
                ELSE /\ "kumagai_meta" \in DOMAIN parameters
                     /\ correction["charge_correction"] =
                            parameters["kumagai_meta"]["kumagai_electrostatic"]
                            + parameters["kumagai_meta"][
                                  "kumagai_potential_alignment_correction"]

----------------------------------------------------------------------------
(* Properties of the charge corrections (under SpecCorr)                   *)

\* C5: for an entry with charge 0, the dict FreysoldtCorrection.get_correction
\* returns has freysoldt_electrostatic = 0 and
\* freysoldt_potential_alignment = 0, and the dict
\* KumagaiCorrection.get_correction returns has kumagai_electrostatic = 0 and
\* kumagai_potential_alignment = 0, whatever the potentials, the lattice and
\* the dielectric.
C5_ZeroChargeZeroCorrection ==
    (charge = 0 /\ raised = "none") =>
        /\ op = "FreysoldtCorrection.get_correction" =>
               /\ ret["freysoldt_electrostatic"] = 0
               /\ ret["freysoldt_potential_alignment"] = 0
        /\ op = "KumagaiCorrection.get_correction" =>
               /\ ret["kumagai_electrostatic"] = 0
               /\ ret["kumagai_potential_alignment"] = 0

\* both corrections have returned for an entry with charge 0 whose planar and
\* atomic-site averages differ from the bulk's
C5_Witness ==
    /\ charge = 0
    /\ raised = "none"
    /\ op = "KumagaiCorrection.get_correction"
    /\ "freysoldt_meta" \in DOMAIN parameters
    /\ parameters["defect_planar_averages"] # parameters["bulk_planar_averages"]
    /\ parameters["defect_atomic_site_averages"] # parameters["bulk_atomic_site_averages"]
    /\ parameters["initial_defect_structure"].lattice.eiso
           # parameters["initial_defect_structure"].lattice.eper

\* C6: after FreysoldtCorrection.get_correction, and after
\* KumagaiCorrection.get_correction, entry.parameters['potalign'] is the
\* returned potential-alignment correction divided by minus the charge when
\* the charge is not 0, and 0 when it is 0.
C6_PotalignIsCorrectionOverMinusCharge ==
    /\ (raised = "none" /\ op = "FreysoldtCorrection.get_correction") =>
           parameters["potalign"] =
               IF charge = 0 THEN 0
               ELSE FDiv(ret["freysoldt_potential_alignment"], 0 - charge)
    /\ (raised = "none" /\ op = "KumagaiCorrection.get_correction") =>
           parameters["potalign"] =
               IF charge = 0 THEN 0
               ELSE FDiv(ret["kumagai_potential_alignment"], 0 - charge)

\* a correction has returned a potential alignment other than 0 for a charged
\* entry
C6_Witness ==
    /\ charge # 0
    /\ raised = "none"
    /\ op = "FreysoldtCorrection.get_correction"
    /\ ret["freysoldt_potential_alignment"] # 0
    /\ parameters["potalign"] # 0
    /\ calls["kumagai"] > 0

----------------------------------------------------------------------------
(* Properties of the delocalization analysis (under SpecDeloc)            *)

\* the checks whose inputs the entry held before the last call
ChecksWithInputs ==
    (IF "freysoldt_meta" \in pre_keys THEN {"plnr_avg"} ELSE {})
        \cup (IF "kumagai_meta" \in pre_keys THEN {"atomic_site"} ELSE {})
        \cup (IF {"final_defect_structure", "final_structure"} \subseteq pre_keys
                  THEN {"structure_relax", "defectsite_relax"} ELSE {})

\* C7: for any subset of freysoldt_meta, kumagai_meta and the final relaxed
\* structure in the entry's parameters, delocalization_analysis finishes
\* without raising and has evaluated exactly the checks whose inputs are
\* present.
C7_AnalysisFinishesWithPresentChecks ==
    op = "delocalization_analysis" =>
        /\ raised = "none"
        /\ checks = ChecksWithInputs

\* C8: after delocalization_analysis, parameters['delocalization_meta'] holds
\* a record for every check that ran: a later check removes no record an
\* earlier one wrote.
C8_EveryCheckKeepsItsRecord ==
    op = "delocalization_analysis" =>
        \A channel \in checks :
            /\ "delocalization_meta" \in DOMAIN parameters
            /\ channel \in DOMAIN parameters["delocalization_meta"]

\* C9: is_freysoldt_delocalized reports the planar-average channel compatible
\* exactly when on each of the three axes the variance of the sampling window
\* is <= plnr_avg_var_tol and |max - min| of the window is <=
\* plnr_avg_minmax_tol, and the metadata of each axis reports the variance it
\* was given.
C9_PlanarAverageVerdict ==
    (op = "is_freysoldt_delocalized" /\ "freysoldt_meta" \in pre_keys) =>
        /\ raised = "none"
        /\ "delocalization_meta" \in DOMAIN parameters
        /\ "plnr_avg" \in DOMAIN parameters["delocalization_meta"]
        /\ LET md == parameters["freysoldt_meta"]["pot_corr_uncertainty_md"]
               record == parameters["delocalization_meta"]["plnr_avg"]
           IN  /\ record.is_compatible <=>
                      \A ax \in 0..2 :
                          /\ md[ax].stats.variance # NaN
                          /\ md[ax].stats.variance <= dc.plnr_avg_var_tol
                          /\ Abs(md[ax].stats.minmax[2] - md[ax].stats.minmax[1])
                                 <= dc.plnr_avg_minmax_tol
               /\ \A ax \in 0..2 :
                      record.metadata[ax].frey_variance = md[ax].stats.variance

\* C10: is_kumagai_delocalized reports the atomic-site channel compatible
\* exactly when the variance of the Kumagai sampling residuals is <=
\* atomic_site_var_tol and |max - min| of the residuals is <=
\* atomic_site_minmax_tol, and its metadata records the variance, the window
\* and the two atomic-site tolerances that were applied.
C10_AtomicSiteVerdict ==
    (op = "is_kumagai_delocalized" /\ "kumagai_meta" \in pre_keys) =>
        /\ raised = "none"
        /\ LET stats == parameters["kumagai_meta"]["pot_corr_uncertainty_md"].stats
               record == parameters["delocalization_meta"]["atomic_site"]
               window == Abs(stats.minmax[2] - stats.minmax[1])
           IN  /\ record.is_compatible <=>
                      /\ stats.variance # NaN
                      /\ stats.variance <= dc.atomic_site_var_tol
                      /\ window <= dc.atomic_site_minmax_tol
               /\ record.metadata.kumagai_variance = stats.variance
               /\ record.metadata.kumagai_minmax_window = window
               /\ record.metadata.atomic_site_var_tol = dc.atomic_site_var_tol
               /\ record.metadata.plnr_avg_minmax_tol = dc.atomic_site_minmax_tol

\* the check has found residuals whose window is within tolerance and whose
\* variance is not
C10_Witness ==
    /\ op = "is_kumagai_delocalized"
    /\ raised = "none"
    /\ "kumagai_meta" \in pre_keys
    /\ ~parameters["delocalization_meta"]["atomic_site"].is_compatible
    /\ parameters["delocalization_meta"]["atomic_site"].metadata.kumagai_minmax_compatible
    /\ parameters["delocalization_meta"]["atomic_site"].metadata.kumagai_variance
           > dc.atomic_site_var_tol


\* the entry held, before the last call, what the structure check reads
StructureInputs == {"final_structure", "kumagai_meta"} \subseteq pre_keys

\* C11: is_final_relaxed_structure_delocalized evaluates the
\* structural-relaxation channel (the displacement summed over the non-defect
\* sites outside the sampling radius against tot_relax_tol, and its share of
\* the total displacement against perc_relax_tol) for every defect type,
\* vacancies included.
C11_StructureChannelEvaluated ==
    (op = "is_final_relaxed_structure_delocalized" /\ StructureInputs) =>
        /\ raised = "none"
        /\ "structure_relax" \in checks

\* C12: the defect-site relaxation check reports compatible, with no
\* relaxation amount, for every Vacancy, and for any other defect type
\* reports compatible exactly when the displacement of the defect site between
\* the initial and the final structure is within defect_tot_relax_tol.
C12_DefectSiteVerdict ==
    (op = "is_final_relaxed_structure_delocalized" /\ StructureInputs) =>
        /\ "delocalization_meta" \in DOMAIN parameters
        /\ "defectsite_relax" \in DOMAIN parameters["delocalization_meta"]
        /\ LET record == parameters["delocalization_meta"]["defectsite_relax"]
               moved == PeriodicDistance(
                            defect_sc.structure.lattice,
                            parameters["final_structure"].sites[defect_sc.defindex + 1].x,
                            defect_sc.structure.sites[defect_sc.defindex + 1].x)
           IN  IF defect_type = "Vacancy"
                   THEN record.is_compatible /\ record.metadata.relax_amount = "None"
               ELSE /\ record.is_compatible <=> moved <= dc.defect_tot_relax_tol
                    /\ record.metadata.relax_amount = moved


----------------------------------------------------------------------------
(* BandFillingCorrection called on entries with varied eigenvalues         *)

MaxKpts == 2

\* the states of one k-point, lowest first: <<energy, occupation>>, with the
\* bulk vbm at 0 and the bulk cbm at 100
KptSets ==
    {<< <<0 - 50, 2>>, <<0, 2>>, <<120, 0>> >>,
     << <<0 - 50, 1>>, <<0, 1>>, <<120, 0>> >>,
     << <<0 - 50, 2>>, <<1, 0>>, <<120, 0>> >>,
     << <<0 - 50, 2>>, <<0, 1>>, <<120, 1>> >>,
     << <<0 - 50, 1>>, <<0 - 1, 0>>, <<99, 1>> >>,
     << <<0 - 50, 2>>, <<1, 2>>, <<120, 0>> >>,
     << <<0 - 50, 2>>, <<1, 1>>, <<50, 1>> >>}

SpinSets == UNION {[1..n -> KptSets] : n \in 1..MaxKpts}

\* one spin channel, or two of which the second holds one k-point
EigenvalueSets == {<<s>> : s \in SpinSets} \cup {<<s, <<k>> >> : s \in SpinSets, k \in KptSets}

WeightSets == {[i \in 1..n |-> 1 + (i % 2)] : n \in 1..MaxKpts}

Potaligns == {0 - 2, 0, 3}

\* the bulk cbm: a wide gap, and one as narrow as the resolution
Cbms == {100, 1}

InitBand ==
    /\ charge = 1
    /\ defect_type = "Substitution"
    /\ defect_sc = [structure |-> StructureOf(Lattice0, NoShift), defindex |-> 0]
    /\ dc = DefaultCompatibility("freysoldt", TRUE, TRUE)
    /\ \E eigenvalues \in EigenvalueSets, kpoint_weights \in WeightSets,
          potalign \in Potaligns, cbm \in Cbms :
           parameters =
               Update(Restrict(FullParameters(Lattice0, Ramp, <<3, 0, 0>>, SiteRamp,
                                              NoShift, 0),
                               KeysOf({"band"})),
                      [eigenvalues |-> eigenvalues, kpoint_weights |-> kpoint_weights,
                       potalign |-> potalign, cbm |-> cbm])
    /\ FreshObjects
    /\ NoHistory

NextBand == BandFillingCorrectionGetCorrection

SpecBand == InitBand /\ [][NextBand]_vars


----------------------------------------------------------------------------
(* Properties of BandFillingCorrection (under SpecBand)                    *)

BandFillingReturned == op = "BandFillingCorrection.get_correction" /\ raised = "none"

\* every <<energy, occupation>> of the entry's eigenvalues
StatesOf(eigenvalues) ==
    UNION {UNION {{eigenvalues[s][k][b] : b \in DOMAIN eigenvalues[s][k]} :
                      k \in DOMAIN eigenvalues[s]} :
               s \in DOMAIN eigenvalues}

\* the occupation of the first listed state, which the code takes as full
FullOccupation == parameters["eigenvalues"][1][1][1][2]

\* every state at or below edge is fully occupied and every state above it
\* is empty
OccupiedUpTo(edge) ==
    \A st \in StatesOf(parameters["eigenvalues"]) :
        st[2] = IF st[1] <= edge THEN FullOccupation ELSE 0

NoFreeCarriers ==
    /\ ret["bandfilling_correction"] = 0
    /\ parameters["bandfilling_meta"]["num_hole_vbm"] = 0
    /\ parameters["bandfilling_meta"]["num_elec_cbm"] = 0

\* C13 as claimed: the band filling correction and both carrier counts are 0
\* when every state at or below the shifted VBM is fully occupied and every
\* state above it is empty, for any k-point weights and potential alignment.
C13_IdealOccupationZero ==
    (BandFillingReturned /\ OccupiedUpTo(parameters["potalign"] + parameters["vbm"])) =>
        NoFreeCarriers

\* C13 amended: the band filling correction and both carrier counts are 0
\* when every state at or below shifted VBM + resolution is fully occupied,
\* every state above it is empty, and shifted CBM - resolution is not below
\* shifted VBM + resolution.
C13_IdealOccupationWithinResolution ==
    (/\ BandFillingReturned
     /\ OccupiedUpTo(parameters["potalign"] + parameters["vbm"] + resolution)
     /\ parameters["cbm"] - resolution >= parameters["vbm"] + resolution) =>
        NoFreeCarriers

\* an ideally occupied entry with a state inside the resolution window above
\* the shifted VBM
C13_Witness ==
    /\ BandFillingReturned
    /\ OccupiedUpTo(parameters["potalign"] + parameters["vbm"] + resolution)
    /\ parameters["cbm"] - resolution >= parameters["vbm"] + resolution
    /\ \E st \in StatesOf(parameters["eigenvalues"]) :
           /\ st[1] > parameters["potalign"] + parameters["vbm"]
           /\ st[1] <= parameters["potalign"] + parameters["vbm"] + resolution
    /\ Len(parameters["eigenvalues"]) = 2
    /\ NoFreeCarriers


\* the sum of f over the finite set D of its arguments
RECURSIVE SumFn(_, _)
SumFn(f, D) ==
    IF D = {} THEN 0
    ELSE LET x == CHOOSE y \in D : TRUE
         IN  f[x] + SumFn(f, D \ {x})

\* <<spin channel, k-point, state>> of every state of a k-point that has a weight
WeightedStates(eigenvalues, kpoint_weights) ==
    UNION {UNION {{<<s, k, b>> : b \in DOMAIN eigenvalues[s][k]} :
                      k \in DOMAIN eigenvalues[s] \cap DOMAIN kpoint_weights} :
               s \in DOMAIN eigenvalues}

\* a state with nonzero occupation above shifted CBM - resolution
ElectronState(st) ==
    st[2] # 0 /\ st[1] > parameters["potalign"] + parameters["cbm"] - resolution

\* a not fully occupied state at or below shifted VBM + resolution
HoleState(st) ==
    st[2] # FullOccupation /\ st[1] <= parameters["potalign"] + parameters["vbm"] + resolution

\* C14: perform_bandfill_corr returns the negative of the sum over all spin
\* channels, k-points and states of weight x spin factor x occupation x
\* (energy - shifted CBM) for the states with nonzero occupation above shifted
\* CBM - resolution, plus weight x spin factor x (full occupation - occupation)
\* x (shifted VBM - energy) for the not fully occupied states at or below
\* shifted VBM + resolution; no state is counted in both groups; num_elec_cbm
\* and num_hole_vbm are the weighted counts of the groups; the spin factor is
\* 2 for a single spin channel with full occupation 1 and 1 otherwise.
C14_BandFillingSum ==
    BandFillingReturned =>
        LET eigenvalues == parameters["eigenvalues"]
            kpoint_weights == parameters["kpoint_weights"]
            spinfctr == IF Len(eigenvalues) = 1 /\ FullOccupation = 1 THEN 2 ELSE 1
            D == WeightedStates(eigenvalues, kpoint_weights)
            State(t) == eigenvalues[t[1]][t[2]][t[3]]
            Electrons(st, w) ==
                IF ElectronState(st) THEN w * spinfctr * st[2] ELSE 0
            Holes(st, w) ==
                IF HoleState(st) /\ ~ElectronState(st)
                    THEN w * spinfctr * (FullOccupation - st[2])
                ELSE 0
            Energy(st, w) ==
                Electrons(st, w) * (st[1] - (parameters["potalign"] + parameters["cbm"]))
                    + Holes(st, w) * ((parameters["potalign"] + parameters["vbm"]) - st[1])
        IN  /\ ret["bandfilling_correction"] =
                   0 - SumFn([t \in D |-> Energy(State(t), kpoint_weights[t[2]])], D)
            /\ parameters["bandfilling_meta"]["num_elec_cbm"] =
                   SumFn([t \in D |-> Electrons(State(t), kpoint_weights[t[2]])], D)
            /\ parameters["bandfilling_meta"]["num_hole_vbm"] =
                   SumFn([t \in D |-> Holes(State(t), kpoint_weights[t[2]])], D)

\* a single spin channel of full occupation 1 with electrons and holes, and a
\* narrow gap with a state inside both windows
C14_Witness ==
    /\ BandFillingReturned
    /\ ret["bandfilling_correction"] # 0
    /\ parameters["bandfilling_meta"]["num_elec_cbm"] > 0
    /\ parameters["bandfilling_meta"]["num_hole_vbm"] > 0
    /\ Len(parameters["eigenvalues"]) = 1
    /\ Len(parameters["kpoint_weights"]) = 2
    /\ \/ FullOccupation = 1
       \/ \E st \in StatesOf(parameters["eigenvalues"]) : ElectronState(st) /\ HoleState(st)


----------------------------------------------------------------------------
(* BandEdgeShiftingCorrection called on entries with varied band edges     *)

\* <<vbm, cbm, hybrid_vbm, hybrid_cbm>>
BandEdges == {0, 10} \X {90, 100} \X {0 - 20, 0, 5} \X {95, 100, 130}

InitEdge ==
    /\ charge \in Charges
    /\ defect_type = "Substitution"
    /\ defect_sc = [structure |-> StructureOf(Lattice0, NoShift), defindex |-> 0]
    /\ dc = DefaultCompatibility("freysoldt", TRUE, TRUE)
    /\ \E edges \in BandEdges :
           parameters =
               Update(Restrict(FullParameters(Lattice0, Ramp, <<3, 0, 0>>, SiteRamp,
                                              NoShift, 0),
                               KeysOf({"band", "hybrid"})),
                      [vbm |-> edges[1], cbm |-> edges[2],
                       hybrid_vbm |-> edges[3], hybrid_cbm |-> edges[4]])
    /\ FreshObjects
    /\ NoHistory

NextEdge ==
    \/ BandEdgeShiftingCorrectionGetCorrection
    \/ RunBandEdgeShifting

SpecEdge == InitEdge /\ [][NextEdge]_vars

\* C15: BandEdgeShiftingCorrection.get_correction returns charge x
\* (hybrid_vbm - vbm) as bandedgeshifting_correction and records vbmshift =
\* hybrid_vbm - vbm and cbmshift = hybrid_cbm - cbm in the entry's
\* bandshift_meta, for every charge and all band-edge values.
C15_BandEdgeShiftArithmetic ==
    op = "BandEdgeShiftingCorrection.get_correction" =>
        /\ raised = "none"
        /\ ret["bandedgeshifting_correction"] =
               charge * (parameters["hybrid_vbm"] - parameters["vbm"])
        /\ parameters["bandshift_meta"]["vbmshift"] =
               parameters["hybrid_vbm"] - parameters["vbm"]
        /\ parameters["bandshift_meta"]["cbmshift"] =
               parameters["hybrid_cbm"] - parameters["cbm"]

\* a charged entry whose band edges shift by different nonzero amounts
C15_Witness ==
    /\ op = "BandEdgeShiftingCorrection.get_correction"
    /\ raised = "none"
    /\ charge < 0
    /\ ret["bandedgeshifting_correction"] > 0
    /\ parameters["bandshift_meta"]["cbmshift"] > 0
    /\ parameters["bandshift_meta"]["cbmshift"] # 0 - parameters["bandshift_meta"]["vbmshift"]


----------------------------------------------------------------------------
(* One KumagaiCorrection object called on several entries                  *)

\* a supercell with longer axes, for which tune_for_gamma finds another gamma
Lattice1 == [Lattice0 EXCEPT !.abc = <<NGX * 6, NGX * 5, NGX * 5>>, !.gamma = 4]

\* entries with the inputs of the Kumagai correction, in one of two supercells
ReuseEntries ==
    {Restrict(FullParameters(lattice, Ramp, pos, siteavg, NoShift, 0),
              KeysOf({"kumagai", "struct"})) :
        lattice \in {Lattice0, Lattice1}, pos \in {<<3, 0, 0>>, <<0, 0, 0>>},
        siteavg \in {SiteRamp, SiteSteep}}

\* KumagaiCorrection(dielectric) with the default sampling_radius and gamma
InitReuse ==
    /\ charge \in Charges
    /\ defect_type = "Substitution"
    /\ defect_sc = [structure |-> StructureOf(Lattice0, NoShift), defindex |-> 0]
    /\ dc = DefaultCompatibility("kumagai", TRUE, TRUE)
    /\ parameters \in ReuseEntries
    /\ FreshObjects
    /\ NoHistory

\* get_correction(entry) of the same object on another entry
KumagaiCorrectionGetCorrectionOfAnother ==
    \E entry \in ReuseEntries :
        /\ entry # Restrict(parameters, DOMAIN entry)
        /\ Commit(KumagaiGetCorrection([Frame EXCEPT !.p = entry], KC),
                  "KumagaiCorrection.get_correction")

NextReuse ==
    \/ KumagaiCorrectionGetCorrection
    \/ KumagaiCorrectionGetCorrectionOfAnother

SpecReuse == InitReuse /\ [][NextReuse]_vars

\* the entry as it was given to the last call of get_correction
KumagaiInputs == Restrict(parameters, KeysOf({"kumagai", "struct"}))

\* C16: what KumagaiCorrection.get_correction returns and records depends
\* only on the entry and the constructor arguments, not on earlier calls of
\* the same object: it is what a newly constructed object gives on that entry,
\* with the gamma and the default sampling radius of the entry's own lattice.
C16_KumagaiIndependentOfEarlierCalls ==
    op = "KumagaiCorrection.get_correction" =>
        LET Same(fresh) ==
                /\ raised = fresh.exc
                /\ raised = "none" =>
                       /\ ret = fresh.ret
                       /\ parameters["potalign"] = fresh.p["potalign"]
                       /\ parameters["kumagai_meta"] = fresh.p["kumagai_meta"]
                       /\ parameters["kumagai_meta"]["gamma"] =
                              parameters["initial_defect_structure"].lattice.gamma
                       /\ parameters["kumagai_meta"]["sampling_radius"] =
                              WignerSeitzRadius(parameters["initial_defect_structure"].lattice)
        IN  Same(KumagaiGetCorrection(FrameOf(KumagaiInputs),
                                      [dielectric |-> KC.dielectric]))


----------------------------------------------------------------------------
(* LevelShiftCorrection (corrections.py).  A shift approach is the sequence *)
(* of its characters; band indices count from 0; projections and the       *)
(* multipliers of approach 'v' are in percent                              *)

tolerance == 1

tol_shallow_defect == 15

LevelShiftRequired == <<"vbm", "cbm", "bandshift_meta", "num_hole_vbm", "num_elec_cbm",
                        "potalign", "eigenvalues", "kpoint_weights">>

\* str.lower on the characters an approach is written with
Lower(s) ==
    [i \in DOMAIN s |->
        CASE s[i] = "A" -> "a" [] s[i] = "B" -> "b" [] s[i] = "I" -> "i"
          [] s[i] = "V" -> "v" [] OTHER -> s[i]]

\* s[:-1]
ButLast(s) == SubSeq(s, 1, Len(s) - 1)

\* an occupied state in the gap, more than tolerance away from both shifted edges
KSDefectState(st, shifted_vbm, shifted_cbm) ==
    st[2] # 0 /\ st[1] > shifted_vbm + tolerance /\ st[1] < shifted_cbm - tolerance

\* lines 952-961: num_occupied_acceptor
NumOccupiedAcceptor(eigenvalues, kpoint_weights, spinfctr, shifted_vbm, shifted_cbm) ==
    LET D == WeightedStates(eigenvalues, kpoint_weights)
        Acceptor(st, w) ==
            IF /\ KSDefectState(st, shifted_vbm, shifted_cbm)
               /\ st[1] <= shifted_vbm + tolerance + tol_shallow_defect
                THEN w * spinfctr * st[2]
            ELSE 0
    IN  SumFn([t \in D |-> Acceptor(eigenvalues[t[1]][t[2]][t[3]], kpoint_weights[t[2]])], D)

\* lines 949-964: all_possible_KS_defect_states, as a set of band indices
AllPossibleKSDefectStates(eigenvalues, kpoint_weights, shifted_vbm, shifted_cbm) ==
    {t[3] - 1 : t \in {u \in WeightedStates(eigenvalues, kpoint_weights) :
                          KSDefectState(eigenvalues[u[1]][u[2]][u[3]],
                                        shifted_vbm, shifted_cbm)}}

\* lines 949-963: occupied_KS_deep_states, the states in the gap that are
\* neither shallow acceptors nor shallow donors
OccupiedKSDeepStates(eigenvalues, kpoint_weights, shifted_vbm, shifted_cbm) ==
    {t[3] - 1 : t \in {u \in WeightedStates(eigenvalues, kpoint_weights) :
        /\ KSDefectState(eigenvalues[u[1]][u[2]][u[3]], shifted_vbm, shifted_cbm)
        /\ eigenvalues[u[1]][u[2]][u[3]][1] > shifted_vbm + tolerance + tol_shallow_defect
        /\ eigenvalues[u[1]][u[2]][u[3]][1]
               < shifted_cbm - tolerance - tol_shallow_defect}}

\* lines 967-969: the band indices of every spin list of lbl_dict
LocalizedBandIndices(lbl_dict) ==
    UNION {{lbl_dict[s][i] : i \in DOMAIN lbl_dict[s]} : s \in DOMAIN lbl_dict}

\* lines 1017-1021 and 1106-1110: the weighted average eigenvalue of a band
WgtAvgEigen(eigenvalues, kpoint_weights, bandind) ==
    LET D == {t \in WeightedStates(eigenvalues, kpoint_weights) : t[3] = bandind + 1}
    IN  FDiv(SumFn([t \in D |-> eigenvalues[t[1]][t[2]][t[3]][1] * kpoint_weights[t[2]]], D),
             SumFn([t \in D |-> kpoint_weights[t[2]]], D))

\* line 1021: the weighted occupation of a band, summed over spins and k-points
TotOccu(eigenvalues, kpoint_weights, spinfctr, bandind) ==
    LET D == {t \in WeightedStates(eigenvalues, kpoint_weights) : t[3] = bandind + 1}
    IN  SumFn([t \in D |->
                  kpoint_weights[t[2]] * spinfctr * eigenvalues[t[1]][t[2]][t[3]][2]], D)

\* lines 1006-1040: pawpy_band_proj_md, from the projections of the entry or,
\* without them, from the side of mid gap the band lies on
PawpyBandProjMd(p, spinfctr, shifted_vbm, all_possible) ==
    LET eigenvalues == p["eigenvalues"]
        kpoint_weights == p["kpoint_weights"]
        data == p["defect_ks_delocal_data"]
        vbmshift == p["bandshift_meta"]["vbmshift"]
        cbmshift == p["bandshift_meta"]["cbmshift"]
        present == IF all_possible = {} THEN {}
                   ELSE {t[3] - 1 : t \in WeightedStates(eigenvalues, kpoint_weights)}
        bands == IF Has(data, "pawpyseed")
                     THEN {b \in present : b \in DOMAIN data["pawpyseed"]}
                 ELSE present
        Proj(b, wgt_avg_eigen) ==
            IF Has(data, "pawpyseed")
                THEN <<Mean(data["pawpyseed"][b][1]), Mean(data["pawpyseed"][b][2])>>
            ELSE IF 2 * wgt_avg_eigen <= 2 * shifted_vbm + p["gap"] THEN <<100, 0>>
            ELSE <<0, 100>>
        Entry(proj, wgt_avg_eigen, occu) ==
            [perc_vbm_shift |-> proj[1], perc_cbm_shift |-> proj[2],
             wgted_eigen |-> wgt_avg_eigen,
             wgted_shift |-> FDiv(proj[1] * vbmshift + proj[2] * cbmshift, 100),
             tot_occu |-> occu,
             shift_corr |-> FDiv(proj[1] * vbmshift + proj[2] * cbmshift, 100) * occu]
        OfBand(b, wgt_avg_eigen) ==
            Entry(Proj(b, wgt_avg_eigen), wgt_avg_eigen,
                  TotOccu(eigenvalues, kpoint_weights, spinfctr, b))
    IN  [b \in bands |-> OfBand(b, WgtAvgEigen(eigenvalues, kpoint_weights, b))]

\* lines 1043-1066: the free carrier terms of the suffix A or B
FreeCarrierShift(p, AB_type, num_occupied_acceptor) ==
    LET vbmshift == p["bandshift_meta"]["vbmshift"]
        cbmshift == p["bandshift_meta"]["cbmshift"]
    IN  IF AB_type = "a"
            THEN [ret |-> [elec_cbm_shift_correction |-> p["num_elec_cbm"] * cbmshift],
                  metadata |-> [num_occupied_acceptor |-> num_occupied_acceptor]]
        ELSE IF AB_type = "b"
            THEN [ret |-> [hole_vbm_shift_correction |-> (0 - 1) * p["num_hole_vbm"] * vbmshift,
                           elec_cbm_shift_correction |-> p["num_elec_cbm"] * cbmshift],
                  metadata |-> EmptyDict]
        ELSE [ret |-> EmptyDict, metadata |-> EmptyDict]

\* lines 1125-1149: the localized level nearest to a band, ties by band index
\* (the first element of the sorted list find_smallest_shifts that names the band)
NearestLocalized(md, local_eigen, mapping, b) ==
    CHOOSE tb \in mapping :
        \A other \in mapping :
            \/ Abs(local_eigen[tb] - md[b].wgted_eigen)
                   < Abs(local_eigen[other] - md[b].wgted_eigen)
            \/ /\ Abs(local_eigen[tb] - md[b].wgted_eigen)
                      = Abs(local_eigen[other] - md[b].wgted_eigen)
               /\ tb <= other

\* lines 1153-1157: tot_corr, to which only the 'pawpyseed' branches add
SmartShiftTotal(track_for_corr) ==
    SumFn([b \in DOMAIN track_for_corr |->
              IF track_for_corr[b].type = "pawpyseed" THEN track_for_corr[b].corr ELSE 0],
          DOMAIN track_for_corr)

\* lines 1100-1171, approach 'iv'.  Every band is handled by the first element
\* of the sorted list that names it, or by the last loop when no localized
\* level is left; a band matched to level tb has type shift_to and to = tb, and
\* type KeyError stands for pawpy_band_proj_md[tb] of a level without projection
SmartShift(md, all_possible, local_eigen, maxshift) ==
    LET local == DOMAIN local_eigen
        mapping == local \ all_possible
        Matched(b, tb) ==
            IF Abs(local_eigen[tb] - md[b].wgted_eigen) > maxshift
                THEN [type |-> "pawpyseed", to |-> 0 - 1, corr |-> md[b].shift_corr]
            ELSE IF tb \notin DOMAIN md THEN [type |-> "KeyError", to |-> tb, corr |-> 0]
            ELSE [type |-> "shift_to", to |-> tb,
                  corr |-> (md[tb].wgted_eigen - md[b].wgted_eigen) * md[b].tot_occu]
        Track(b) ==
            IF b \in local THEN [type |-> "localized", to |-> 0 - 1, corr |-> 0]
            ELSE IF mapping = {}
                THEN [type |-> "pawpyseed", to |-> 0 - 1, corr |-> md[b].shift_corr]
            ELSE Matched(b, NearestLocalized(md, local_eigen, mapping, b))
        Totalled(track_for_corr) ==
            [tot_corr |-> SmartShiftTotal(track_for_corr),
             smart_shift_md |-> [all_possible_KS_defect_states |-> all_possible,
                                 track_for_corr |-> track_for_corr],
             wgt_avg_eigen_for_each_local_band |-> local_eigen]
    IN  Totalled([b \in all_possible |-> Track(b)])

\* lines 1212-1224, approach 'v': 1 - nn_procar_occu / tot_procar_occu of a
\* band, 0 when the band is not in the stored data or its total is zero
LocalMultiply(spd, b) ==
    IF b \notin DOMAIN spd \/ spd[b].tot_procar_occu = 0 THEN 0
    ELSE 100 - FDiv(100 * spd[b].nn_procar_occu, spd[b].tot_procar_occu)

\* lines 916-1241 of get_correction: the exception, or the dict returned and
\* self.metadata of a new LevelShiftCorrection
LevelShiftOutcome(p, shift_approach0) ==
    LET shift_approach == Lower(shift_approach0)
        eigenvalues == p["eigenvalues"]
        kpoint_weights == p["kpoint_weights"]
        shifted_vbm == p["potalign"] + p["vbm"]
        shifted_cbm == p["potalign"] + p["cbm"]
        spinfctr == SpinFactor(Len(eigenvalues), eigenvalues[1][1][1][2])
        all_possible ==
            AllPossibleKSDefectStates(eigenvalues, kpoint_weights, shifted_vbm, shifted_cbm)
        deep == OccupiedKSDeepStates(eigenvalues, kpoint_weights, shifted_vbm, shifted_cbm)
        localized == LocalizedBandIndices(p["defect_ks_delocal_data"]["localized_band_indices"])
        present == IF all_possible = {} THEN {}
                   ELSE {t[3] - 1 : t \in WeightedStates(eigenvalues, kpoint_weights)}
        AB_type == shift_approach[Len(shift_approach)]
        corr_type == IF AB_type \in {"a", "b"} THEN ButLast(shift_approach)
                     ELSE shift_approach
        Fail(x) == [exc |-> x, ret |-> EmptyDict, metadata |-> EmptyDict]
        Done(free, key, tot_corr, metadata) ==
            [exc |-> "none", ret |-> Put(free.ret, key, tot_corr),
             metadata |-> Update(free.metadata, metadata)]
        \* lines 1159-1171
        Smart(free, md, s) ==
            IF \E b \in all_possible : s.smart_shift_md.track_for_corr[b].type = "KeyError"
                THEN Fail("KeyError")
            ELSE Done(free, "smart_KS_shift", s.tot_corr,
                 [pawpy_band_proj_md |-> md, smart_shift_md |-> s.smart_shift_md,
                  wgt_avg_eigen_for_each_local_band |-> s.wgt_avg_eigen_for_each_local_band])
        \* lines 1068-1241
        Dispatch(free, md) ==
            IF corr_type = <<"i", "i">> THEN
                IF ~(deep \subseteq DOMAIN md) THEN Fail("KeyError")
                ELSE Done(free, "pawpyseed_always_KS_shift",
                          SumFn([b \in deep |-> md[b].shift_corr], deep),
                          [pawpy_band_proj_md |-> md])
            ELSE IF corr_type = <<"i", "i", "i">> THEN
                IF ~(deep \subseteq DOMAIN md) THEN Fail("KeyError")
                ELSE Done(free, "pawpyseed_nonlocal_KS_shift",
                          SumFn([b \in deep \ localized |-> md[b].shift_corr],
                                deep \ localized),
                          [pawpy_band_proj_md |-> md, localized_levels |-> localized])
            ELSE IF corr_type = <<"i", "v">> THEN
                IF ~(all_possible \subseteq DOMAIN md) THEN Fail("KeyError")
                ELSE Smart(free, md,
                           SmartShift(md, all_possible,
                                      [tb \in localized \cap present |->
                                          WgtAvgEigen(eigenvalues, kpoint_weights, tb)],
                                      IF Abs(p["bandshift_meta"]["vbmshift"])
                                             > Abs(p["bandshift_meta"]["cbmshift"])
                                          THEN Abs(p["bandshift_meta"]["vbmshift"])
                                      ELSE Abs(p["bandshift_meta"]["cbmshift"])))
            ELSE IF corr_type = <<"v">> THEN
                IF ~HasAll(p, <<IF defect_type = "Interstitial"
                                    THEN "initial_defect_structure"
                                ELSE "bulk_sc_structure",
                                "defect_index_sc_coords", "site_matching_indices">>)
                    THEN Fail("KeyError")
                ELSE IF ~Has(p["defect_ks_delocal_data"], "stored_procar_dat")
                    THEN Fail("KeyError")
                ELSE IF ~(all_possible \subseteq DOMAIN md) THEN Fail("KeyError")
                ELSE Done(free, "nn_adjusted_KS_shift",
                          FDiv(SumFn([b \in all_possible |->
                                         LocalMultiply(p["defect_ks_delocal_data"][
                                                           "stored_procar_dat"], b)
                                         * md[b].shift_corr], all_possible), 100),
                          [pawpy_band_proj_md |-> md,
                           local_multiply_dict |->
                               [b \in all_possible |->
                                   LocalMultiply(p["defect_ks_delocal_data"][
                                                     "stored_procar_dat"], b)]])
            ELSE IF corr_type # <<"i">> THEN Fail("ValueError")
            ELSE [exc |-> "none", ret |-> free.ret, metadata |-> free.metadata]
    IN  IF ~HasAll(p, LevelShiftRequired) THEN Fail("KeyError")
        ELSE IF ~HasAll(p["bandshift_meta"], <<"vbmshift", "cbmshift">>)
            THEN Fail("KeyError")
        ELSE IF eigenvalues = <<>> \/ eigenvalues[1] = <<>> \/ eigenvalues[1][1] = <<>>
            THEN Fail("IndexError")
        ELSE IF Len(eigenvalues) > 2 THEN Fail("ValueError")
        ELSE IF ~Has(p, "defect_ks_delocal_data") THEN Fail("KeyError")
        ELSE IF ~Has(p["defect_ks_delocal_data"], "localized_band_indices")
            THEN Fail("KeyError")
        ELSE IF /\ all_possible # {}
                /\ ~Has(p["defect_ks_delocal_data"], "pawpyseed")
                /\ ~Has(p, "gap")
            THEN Fail("KeyError")
        ELSE IF shift_approach = <<>> THEN Fail("IndexError")
        ELSE Dispatch(FreeCarrierShift(p, AB_type,
                                       NumOccupiedAcceptor(eigenvalues, kpoint_weights,
                                                           spinfctr, shifted_vbm,
                                                           shifted_cbm)),
                      PawpyBandProjMd(p, spinfctr, shifted_vbm, all_possible))

\* LevelShiftGetCorrection that assigns entry.parameters instead of one key
LevelShiftReplacingParameters(e, shift_approach) ==
    LET Stored(r) ==
            IF r.exc # "none" THEN Raise(e, r.exc)
            ELSE [e EXCEPT !.p = [levelshift_meta |-> r.metadata], !.ret = r.ret]
    IN  Stored(LevelShiftOutcome(e.p, shift_approach))

\* LevelShiftCorrection().get_correction(entry, shift_approach); line 1243
\* stores the metadata in the entry
LevelShiftGetCorrection(e, shift_approach) ==
    LET Stored(r) ==
            IF r.exc # "none" THEN Raise(e, r.exc)
            ELSE [e EXCEPT !.p = Put(e.p, "levelshift_meta", r.metadata), !.ret = r.ret]
    IN  Stored(LevelShiftOutcome(e.p, shift_approach))

LevelShiftCorrectionGetCorrection ==
    \E shift_approach \in {<<"i", "A">>, <<"i", "B">>, <<"v", "i">>} :
        Commit(LevelShiftGetCorrection(Frame, shift_approach),
               "LevelShiftCorrection.get_correction")


----------------------------------------------------------------------------
(* Every correction stage and delocalization check, in any order, on one   *)
(* entry                                                                   *)

\* the inputs of the level shift that no other stage reads
LevelShiftInputs ==
    [defect_ks_delocal_data |-> [localized_band_indices |-> <<>>], gap |-> 100]

\* an entry of a Freysoldt workflow with the band data, and one of a Kumagai
\* workflow with the relaxed structure
StageProfiles ==
    {{"frey", "diel", "band", "hybrid", "carriers", "struct"},
     {"kumagai", "diel", "struct", "final"}}

InitStages ==
    /\ charge = 0 - 1
    /\ defect_type = "Substitution"
    /\ defect_sc = [structure |-> StructureOf(Lattice0, NoShift), defindex |-> 0]
    /\ dc = DefaultCompatibility("freysoldt", TRUE, TRUE)
    /\ \E groups \in StageProfiles :
           parameters = Update(Restrict(FullParameters(Lattice0, Ramp, <<3, 0, 0>>, SiteRamp,
                                                       SmallShift, 0),
                                        KeysOf(groups)),
                               IF "band" \in groups THEN LevelShiftInputs ELSE EmptyDict)
    /\ FreshObjects
    /\ NoHistory

NextStages ==
    \/ PerformFreysoldt
    \/ PerformKumagai
    \/ RunBandfilling
    \/ RunBandEdgeShifting
    \/ FreysoldtCorrectionGetCorrection
    \/ KumagaiCorrectionGetCorrection
    \/ BandFillingCorrectionGetCorrection
    \/ BandEdgeShiftingCorrectionGetCorrection
    \/ LevelShiftCorrectionGetCorrection
    \/ DelocalizationAnalysis
    \/ IsFreysoldtDelocalized
    \/ IsKumagaiDelocalized
    \/ IsFinalRelaxedStructureDelocalized

SpecStages == InitStages /\ [][NextStages]_vars


\* C17: across any sequence of correction stages (Freysoldt, Kumagai, band
\* filling, band-edge shift, level shift) and delocalization checks applied
\* to one entry, no key is ever removed from entry.parameters: the keys after
\* each operation include the keys before it.
C17_ParametersNeverLoseKey == pre_keys \subseteq DOMAIN parameters

\* the level shift has just added its key to an entry that holds what the
\* Freysoldt, band filling and band-edge corrections have stored
C17_Witness ==
    /\ op = "LevelShiftCorrection.get_correction"
    /\ raised = "none"
    /\ "levelshift_meta" \notin pre_keys
    /\ {"freysoldt_meta", "bandfilling_meta", "bandshift_meta", "bandedgeshift_meta",
        "levelshift_meta", "eigenvalues"} \subseteq DOMAIN parameters


----------------------------------------------------------------------------
(* The free-carrier cutoff of process_entry (under Spec)                   *)

\* the keys process_entry and the stages it runs write for other purposes
OrdinaryResultKeys ==
    CorrectionOutputKeys \cup {"is_compatible", "phasediagram_meta", "delocalization_meta",
                               "charge_correction", "bandfilling_correction",
                               "bandedgeshifting_correction"}

\* C18: when the free carriers of the entry exceed free_chg_cutoff,
\* process_entry returns the entry without a charge correction and with a
\* record of the omission in its parameters or its correction map.
C18_OmissionRecorded ==
    (/\ op = "process_entry"
     /\ {"num_hole_vbm", "num_elec_cbm"} \subseteq pre_keys
     /\ TooManyFreeCharges(dc, parameters)) =>
        /\ raised = "none"
        /\ "charge_correction" \notin DOMAIN correction
        /\ \E k \in (DOMAIN parameters \ pre_keys) \cup DOMAIN correction :
               k \notin OrdinaryResultKeys


----------------------------------------------------------------------------
(* The potential alignment under a change of the charge's sign (under      *)
(* SpecCorr)                                                               *)

\* the long range model potential of charge q along the axis
ModelPotential(lattice, q, dielectric, axis) ==
    [k \in 1..Len(lattice.Vlr[axis + 1]) |->
        FDiv((0 - q) * lattice.Vlr[axis + 1][k], dielectric)]

\* how far perform_pot_corr rolls the planar averages of the axis
RollOfDefect(axis_grid, lattice, pos, axis) ==
    LET abc == lattice.abc[axis + 1]
        ax0 == FDiv(pos[axis + 1] * abc, FracDen)
        axbulkval == IF ax0 < 0 THEN ax0 + abc ELSE IF ax0 > abc THEN ax0 - abc ELSE ax0
    IN  IF axbulkval # 0 THEN Len(axis_grid) - BreakIndex(axis_grid, axbulkval, 0) ELSE 0

\* the bulk planar average with which charge -q leaves the same difference
\* between the measured and the model potential as pureavg does with charge q
MirroredPlanarAverage(pureavg, axis_grid, lattice, q, dielectric, pos, axis) ==
    LET vq == ModelPotential(lattice, q, dielectric, axis)
        vm == ModelPotential(lattice, 0 - q, dielectric, axis)
        back == Roll([k \in 1..Len(vq) |-> vq[k] - vm[k]],
                     0 - RollOfDefect(axis_grid, lattice, pos, axis))
    IN  [k \in 1..Len(pureavg) |-> pureavg[k] + back[k]]

\* the site list of KumagaiCorrection.get_correction with which charge -q
\* leaves the same Vqb - Vpc at every site as the entry does with charge q
MirroredSiteList(p, q) ==
    LET structure == p["initial_defect_structure"]
        match == p["site_matching_indices"]
    IN  [j \in 1..Len(match) |->
            [index |-> match[j][2],
             x |-> structure.sites[match[j][2] + 1].x,
             vpc |-> structure.sites[match[j][2] + 1].vpc,
             Vqb |-> 0 - (p["defect_atomic_site_averages"][match[j][2] + 1]
                          - p["bulk_atomic_site_averages"][match[j][1] + 1])
                     - 2 * q * structure.sites[match[j][2] + 1].vpc]]

\* perform_pot_corr of the axis for charge -q on the mirrored planar average
MirroredFreysoldt(axis) ==
    perform_pot_corr(Frame, FC.dielectric, parameters["axis_grid"][axis + 1],
                     MirroredPlanarAverage(parameters["bulk_planar_averages"][axis + 1],
                                           parameters["axis_grid"][axis + 1],
                                           parameters["initial_defect_structure"].lattice,
                                           charge, FC.dielectric,
                                           parameters["defect_frac_sc_coords"], axis),
                     parameters["defect_planar_averages"][axis + 1],
                     parameters["initial_defect_structure"].lattice, 0 - charge,
                     parameters["defect_frac_sc_coords"], axis)

\* KumagaiCorrection.perform_pot_corr for charge -q on the mirrored site list
MirroredKumagai ==
    kumagai_perform_pot_corr(Frame, parameters["initial_defect_structure"].lattice,
                             parameters["defect_frac_sc_coords"],
                             MirroredSiteList(parameters, charge),
                             KC.metadata["sampling_radius"], 0 - charge)

FreysoldtReturned == op = "FreysoldtCorrection.get_correction" /\ raised = "none"

KumagaiReturned == op = "KumagaiCorrection.get_correction" /\ raised = "none"

\* perform_pot_corr of the axis for charge -q on the entry's planar averages,
\* or on planar averages whose difference has the opposite sign
OppositeChargeFreysoldt(axis, negated) ==
    perform_pot_corr(Frame, FC.dielectric, parameters["axis_grid"][axis + 1],
                     parameters[IF negated THEN "defect_planar_averages"
                                ELSE "bulk_planar_averages"][axis + 1],
                     parameters[IF negated THEN "bulk_planar_averages"
                                ELSE "defect_planar_averages"][axis + 1],
                     parameters["initial_defect_structure"].lattice, 0 - charge,
                     parameters["defect_frac_sc_coords"], axis)

\* KumagaiCorrection.perform_pot_corr for charge -q on the entry's measured
\* differences Vqb, or on the differences of opposite sign
OppositeChargeKumagai(negated) ==
    LET mirrored == MirroredSiteList(parameters, charge)
    IN  kumagai_perform_pot_corr(
            Frame, parameters["initial_defect_structure"].lattice,
            parameters["defect_frac_sc_coords"],
            [j \in 1..Len(mirrored) |->
                [mirrored[j] EXCEPT !.Vqb =
                    (IF negated THEN 0 - 1 ELSE 1) * (@ + 2 * charge * mirrored[j].vpc)]],
            KC.metadata["sampling_radius"], 0 - charge)

----------------------------------------------------------------------------
(* The precision pairs of KumagaiCorrection.get_correction (under SpecCorr) *)

Diverged(a, b) == Abs(a - b) > es_tolerance

\* C20: KumagaiCorrection.get_correction accepts the lattice sum of the pair
\* [25, 28] when its two values agree within the tolerance; otherwise it
\* evaluates the pair [30, 35] once, raises ValueError exactly when that pair
\* still differs by more than the tolerance, and proceeds with the escalated
\* value when that pair agrees.
C20_EscalatesOnceThenFails ==
    op = "KumagaiCorrection.get_correction" =>
        LET es == parameters["initial_defect_structure"].lattice.es
        IN  IF ~Diverged(es[1], es[2])
                THEN raised = "none" =>
                         ret["kumagai_electrostatic"] = KumagaiEs(es[1], charge)
            ELSE IF Diverged(es[3], es[4]) THEN raised = "ValueError"
            ELSE /\ raised = "none"
                 /\ ret["kumagai_electrostatic"] = KumagaiEs(es[3], charge)


----------------------------------------------------------------------------
(* The sampling of KumagaiCorrection.perform_pot_corr (under SpecCorr)     *)

\* the call reached perform_pot_corr: the lattice sums of the first pair agree
KumagaiSampled ==
    /\ op = "KumagaiCorrection.get_correction"
    /\ ~Diverged(parameters["initial_defect_structure"].lattice.es[1],
                 parameters["initial_defect_structure"].lattice.es[2])

\* the matched sites farther from the defect than the sampling radius in use
QualifyingSites ==
    {j \in DOMAIN parameters["site_matching_indices"] :
        DistToDefect(parameters["initial_defect_structure"].lattice,
                     parameters["initial_defect_structure"].sites[
                         parameters["site_matching_indices"][j][2] + 1].x,
                     parameters["defect_frac_sc_coords"])
            > KC.metadata["sampling_radius"]}

\* raw potential difference minus model potential at the j-th matched site
Residual(j) ==
    LET bs == parameters["site_matching_indices"][j][1]
        ds == parameters["site_matching_indices"][j][2]
    IN  (0 - (parameters["defect_atomic_site_averages"][ds + 1]
              - parameters["bulk_atomic_site_averages"][bs + 1]))
        - parameters["initial_defect_structure"].sites[ds + 1].vpc * charge

\* C21: KumagaiCorrection.perform_pot_corr averages the residual over exactly
\* the sites farther from the defect than the sampling radius and returns
\* -charge x that mean; when no site qualifies it completes without error with
\* alignment constant 0 and correction 0.
C21_SamplesOutsideRadius ==
    KumagaiSampled =>
        /\ raised = "none"
        /\ LET mean == IF QualifyingSites = {} THEN 0
                       ELSE FDiv(SumFn([j \in QualifyingSites |-> Residual(j)],
                                       QualifyingSites),
                                 Cardinality(QualifyingSites))
           IN  /\ KC.metadata["potalign"] = mean
               /\ ret["kumagai_potential_alignment"] = (0 - charge) * mean


----------------------------------------------------------------------------
(* FreysoldtCorrection.get_correction over defect positions, grid          *)
(* spacings, imaginary parts and choices of axis                           *)

\* the grid spacing of each axis (0.1 A): the window half width k is 1, 2, 5
\* with the first and 0, 1, 1 with the second
GridSpacings == {<<4, 2, 1>>, <<12, 5, 3>>}

AlignGrids(spacing) == [ax \in 1..3 |-> [k \in 1..NGX |-> (k - 1) * spacing[ax]]]

\* the imaginary part of the transform for a unit charge, on every axis
NegSpike == [k \in 1..NGX |-> IF k = 2 THEN 0 - 3 ELSE 0]

Ripple == [k \in 1..NGX |-> IF k = 1 THEN 1 ELSE IF k = 2 THEN 0 - 1 ELSE 0]

ImagParts == {ZeroImag, Spike, NegSpike, Ripple}

AlignLattice(spacing, imag) ==
    [Lattice0 EXCEPT !.abc = [ax \in 1..3 |-> NGX * spacing[ax]],
                     !.Vim = [ax \in 1..3 |-> imag]]

\* fractional coordinates of the defect (in 1/FracDen), the same on each axis
DefectPositions == {0 - 1, 0, 2, 3, 6, 11, 12, 14, 26}

Alternating == [k \in 1..NGX |-> k % 2]

AxisChoices ==
    {NoAxis, [kind |-> "int", v |-> <<>>]}
        \cup {[kind |-> "list", v |-> v] : v \in {<<0>>, <<1>>, <<2>>, <<2, 0>>}}

InitAlign ==
    /\ charge \in Charges
    /\ defect_type = "Substitution"
    /\ defect_sc = [structure |-> StructureOf(Lattice0, NoShift), defindex |-> 0]
    /\ dc = DefaultCompatibility("freysoldt", TRUE, TRUE)
    /\ \E spacing \in GridSpacings, imag \in ImagParts, pos \in DefectPositions :
           parameters =
               [Restrict(FullParameters(AlignLattice(spacing, imag), Ramp,
                                        <<pos, pos, pos>>, SiteRamp, NoShift, 0),
                         KeysOf({"frey", "struct"}))
                    EXCEPT !["axis_grid"] = AlignGrids(spacing),
                           !["bulk_planar_averages"] = [ax \in 1..3 |-> Alternating]]
    /\ \E axis \in AxisChoices :
           FC = [dielectric |-> 2, axis |-> axis, metadata |-> FreshFCMetadata]
    /\ KC = [dielectric |-> 2, metadata |-> FreshKCMetadata(0, 0)]
    /\ NoHistory

NextAlign == FreysoldtCorrectionGetCorrection

SpecAlign == InitAlign /\ [][NextAlign]_vars


----------------------------------------------------------------------------
(* The sampling window of FreysoldtCorrection.perform_pot_corr (under      *)
(* SpecAlign)                                                              *)

\* get_correction returned after aligning along the single axis FC.axis.v[1]
AlignedAlongOneAxis ==
    /\ FreysoldtReturned
    /\ FC.axis.kind = "list"
    /\ Len(FC.axis.v) = 1

\* the short range residual of the axis after the shift: defect minus bulk
\* planar average, shifted, minus the long range model potential
ShiftedResidual(axis) ==
    LET grid == parameters["axis_grid"][axis + 1]
        lattice == parameters["initial_defect_structure"].lattice
        rollind == RollOfDefect(grid, lattice, parameters["defect_frac_sc_coords"], axis)
        diff == Roll([i \in 1..Len(grid) |->
                         parameters["defect_planar_averages"][axis + 1][i]
                         - parameters["bulk_planar_averages"][axis + 1][i]], rollind)
        model == ModelPotential(lattice, charge, FC.dielectric, axis)
    IN  [i \in 1..Len(grid) |-> diff[i] - model[i]]

\* k = floor((widthsample / 2) / grid spacing)
HalfWidth(axis) ==
    (widthsample \div 2)
        \div (parameters["axis_grid"][axis + 1][2] - parameters["axis_grid"][axis + 1][1])

\* the residual at the indices mid - k .. mid + k, mid = floor(n / 2)
WindowSamples(axis) ==
    LET mid == Len(parameters["axis_grid"][axis + 1]) \div 2
    IN  [j \in 1..(2 * HalfWidth(axis) + 1) |->
            ShiftedResidual(axis)[mid - HalfWidth(axis) + j]]

\* the window [mid - k, mid + k] with its 2k+1 samples is what was recorded
WindowRecorded(axis) ==
    LET mid == Len(parameters["axis_grid"][axis + 1]) \div 2
    IN  /\ FC.metadata.pot_plot_data[axis].check
               = <<mid - HalfWidth(axis), mid + HalfWidth(axis) + 1>>
        /\ FC.metadata.pot_corr_uncertainty_md[axis].stats.nobs = 2 * HalfWidth(axis) + 1
        /\ FC.metadata.pot_corr_uncertainty_md[axis].stats.mean
               = Mean(WindowSamples(axis))

\* C22 as stated: FreysoldtCorrection.perform_pot_corr returns -charge x C with
\* C the average of the short range residual over the window [mid - k, mid + k]
\* of 2k+1 samples.
C22_MinusChargeTimesWindowAverage ==
    AlignedAlongOneAxis =>
        /\ WindowRecorded(FC.axis.v[1])
        /\ ret["freysoldt_potential_alignment"]
               = (0 - charge) * Mean(WindowSamples(FC.axis.v[1]))

\* C22: when the window [mid - k, mid + k] lies inside the array, perform_pot_corr
\* returns -charge x C with C minus the average of the short range residual over
\* the 2k+1 samples of that window.
C22_MinusChargeTimesMinusWindowAverage ==
    /\ AlignedAlongOneAxis =>
           /\ WindowRecorded(FC.axis.v[1])
           /\ ret["freysoldt_potential_alignment"]
                  = (0 - charge) * (0 - Mean(WindowSamples(FC.axis.v[1])))
    /\ (/\ op = "FreysoldtCorrection.get_correction"
        /\ FC.axis.kind = "list"
        /\ Len(FC.axis.v) = 1
        /\ raised = "IndexError")
           => Len(parameters["axis_grid"][FC.axis.v[1] + 1]) \div 2
                  + HalfWidth(FC.axis.v[1])
                  >= Len(parameters["axis_grid"][FC.axis.v[1] + 1])

C22_Witness ==
    /\ AlignedAlongOneAxis
    /\ charge # 0
    /\ HalfWidth(FC.axis.v[1]) = 2
    /\ parameters["defect_frac_sc_coords"][1] = 3
    /\ Mean(WindowSamples(FC.axis.v[1])) # 0
    /\ ret["freysoldt_potential_alignment"] # 0


----------------------------------------------------------------------------
(* The imaginary part of the model potential (under SpecAlign)             *)

\* get_correction was called with the single axis FC.axis.v[1]
CalledAlongOneAxis ==
    /\ op = "FreysoldtCorrection.get_correction"
    /\ FC.axis.kind = "list"
    /\ Len(FC.axis.v) = 1

\* some element of the transformed model potential of the axis has an
\* imaginary part of magnitude above madetol
SomeImaginaryPartTooLarge(axis) ==
    \E k \in DOMAIN parameters["initial_defect_structure"].lattice.Vim[axis + 1] :
        Abs((0 - charge) * parameters["initial_defect_structure"].lattice.Vim[axis + 1][k])
            > madetol

----------------------------------------------------------------------------
(* The shift of the planar averages to the defect (under SpecAlign)        *)

\* the defect's coordinate along the axis, wrapped into [0, axis length]
WrappedCoordinate(axis) ==
    LET abc == parameters["initial_defect_structure"].lattice.abc[axis + 1]
        c == FDiv(parameters["defect_frac_sc_coords"][axis + 1] * abc, FracDen)
    IN  IF c >= 0 /\ c <= abc THEN c ELSE c % abc

\* defect minus bulk planar average of the axis as the entry holds them
UnshiftedDifference(axis) ==
    [i \in 1..Len(parameters["axis_grid"][axis + 1]) |->
        parameters["defect_planar_averages"][axis + 1][i]
        - parameters["bulk_planar_averages"][axis + 1][i]]

\* the difference of the shifted planar averages that the call recorded
ShiftedDifference(axis) == FC.metadata.pot_plot_data[axis].dft_diff

\* the grid points (1-based) whose sample may stand for the defect's coordinate:
\* the point the defect lies on, else the two points it lies between
DefectGridPoints(axis) ==
    LET grid == parameters["axis_grid"][axis + 1]
        c == WrappedCoordinate(axis)
    IN  IF \E i \in DOMAIN grid : grid[i] = c
        THEN {i \in DOMAIN grid : grid[i] = c}
        ELSE {i \in DOMAIN grid :
                 \/ grid[i] < c /\ (i = Len(grid) \/ grid[i + 1] > c)
                 \/ grid[i] > c /\ i > 1 /\ grid[i - 1] < c
                 \/ i = 1 /\ grid[Len(grid)] < c}

\* C24: perform_pot_corr rotates the bulk and the defect planar averages
\* circularly by the same offset so that the sample at the defect's coordinate
\* (a defect lying exactly on grid point j included) lands at index 0, after
\* wrapping a coordinate outside [0, axis length] into the cell; a coordinate
\* of 0 leaves the arrays unchanged and no sample is lost or duplicated.
C24_DefectSampleLandsAtIndexZero ==
    AlignedAlongOneAxis =>
        /\ \E r \in 0..(Len(UnshiftedDifference(FC.axis.v[1])) - 1) :
               ShiftedDifference(FC.axis.v[1])
                   = Roll(UnshiftedDifference(FC.axis.v[1]), r)
        /\ \E i \in DefectGridPoints(FC.axis.v[1]) :
               ShiftedDifference(FC.axis.v[1])[1] = UnshiftedDifference(FC.axis.v[1])[i]
        /\ WrappedCoordinate(FC.axis.v[1]) = 0
               => ShiftedDifference(FC.axis.v[1]) = UnshiftedDifference(FC.axis.v[1])


----------------------------------------------------------------------------
(* The axes of FreysoldtCorrection.get_correction (under SpecAlign)        *)

\* get_correction was called and no axis failed in perform_pot_corr
NoAxisFailed ==
    /\ op = "FreysoldtCorrection.get_correction"
    /\ raised \notin {"Exception", "IndexError"}

\* the alignment correction of one axis, from the entry's inputs
AxisCorrection(axis) == (0 - charge) * (0 - Mean(WindowSamples(axis)))

\* C25: with axis=None get_correction aligns on each of the three axes and
\* returns their mean; with axis a single index or a set of indices it aligns
\* on those axes only, returns the mean over them and records per-axis
\* diagnostics only for them.
C25_AlignsOnChosenAxes ==
    NoAxisFailed =>
        /\ raised = "none"
        /\ FC.axis.kind = "None" =>
               /\ DOMAIN FC.metadata.pot_plot_data = {0, 1, 2}
               /\ DOMAIN FC.metadata.pot_corr_uncertainty_md = {0, 1, 2}
               /\ ret["freysoldt_potential_alignment"]
                      = Mean([i \in 1..3 |-> AxisCorrection(i - 1)])
        /\ FC.axis.kind = "list" =>
               /\ DOMAIN FC.metadata.pot_plot_data
                      = {FC.axis.v[i] : i \in DOMAIN FC.axis.v}
               /\ DOMAIN FC.metadata.pot_corr_uncertainty_md
                      = {FC.axis.v[i] : i \in DOMAIN FC.axis.v}
               /\ ret["freysoldt_potential_alignment"]
                      = Mean([i \in DOMAIN FC.axis.v |-> AxisCorrection(FC.axis.v[i])])
        /\ FC.axis.kind = "int" =>
               /\ Cardinality(DOMAIN FC.metadata.pot_plot_data) = 1
               /\ DOMAIN FC.metadata.pot_corr_uncertainty_md
                      = DOMAIN FC.metadata.pot_plot_data


----------------------------------------------------------------------------
(* The order of the charge corrections in perform_all_corrections (under   *)
(* Spec)                                                                   *)

\* the entry held the inputs of both charge corrections and no cached output
BothChargeCorrectionsRunnable ==
    /\ Required(required_frey_params) \subseteq pre_keys
    /\ Required(required_kumagai_params) \subseteq pre_keys
    /\ "freysoldt_meta" \notin pre_keys
    /\ "kumagai_meta" \notin pre_keys

\* C26: when perform_all_corrections runs both charge corrections on one entry
\* the order is Freysoldt, Kumagai, band filling; each charge correction
\* overwrites parameters['potalign'], so band filling reads the Kumagai
\* potalign whatever preferred_cc is, while freysoldt_meta['freysoldt_potalign']
\* holds the Freysoldt value.
C26_BandFillingReadsKumagaiPotalign ==
    (op = "perform_all_corrections" /\ BothChargeCorrectionsRunnable) =>
        /\ raised = "none"
        /\ calls["freysoldt"] >= 1
        /\ calls["kumagai"] >= 1
        /\ {"freysoldt_meta", "kumagai_meta", "potalign"} \subseteq DOMAIN parameters
        /\ "freysoldt_potalign" \in DOMAIN parameters["freysoldt_meta"]
        /\ parameters["potalign"] = parameters["kumagai_meta"]["kumagai_potalign"]
        /\ "bandfilling_meta" \in DOMAIN parameters \ pre_keys =>
               parameters["bandfilling_meta"]["potalign"]
                   = parameters["kumagai_meta"]["kumagai_potalign"]


----------------------------------------------------------------------------
(* The band edge shift that process_entry aggregates (under Spec)          *)

\* lines 110-113 of process_entry applied to the entry as it is now
BandEdgeShiftRead == BandEdgeShiftPart([Frame EXCEPT !.val = EmptyDict])

\* C27: the bandedgeshifting_correction process_entry puts in the correction
\* map equals the value BandEdgeShiftingCorrection.get_correction returned for
\* the entry (charge x VBM shift): process_entry reads it from the parameter
\* key and the field names that the band-edge stage wrote.
C27_AggregatesTheBandEdgeShiftReturned ==
    /\ (/\ op = "process_entry"
        /\ dc.use_bandedgeshift
        /\ Required(required_bandedge_shifting_params) \subseteq pre_keys) =>
           /\ raised = "none"
           /\ "bandedgeshifting_correction" \in DOMAIN correction
           /\ correction["bandedgeshifting_correction"]
                  = charge * (parameters["hybrid_vbm"] - parameters["vbm"])
    /\ (/\ op = "run_band_edge_shifting"
        /\ raised = "none"
        /\ dc.use_bandedgeshift) =>
           /\ Ok(BandEdgeShiftRead)
           /\ BandEdgeShiftRead.val["bandedgeshifting_correction"]
                  = parameters["bandedgeshift_meta"]["bandedgeshifting_correction"]


----------------------------------------------------------------------------
(* One FreysoldtCorrection object applied to several entries               *)

\* entries with the inputs of the Freysoldt correction
SharedEntries ==
    {Restrict(FullParameters(Lattice0, defavg, <<pos, pos, pos>>, SiteRamp, NoShift, 0),
              KeysOf({"frey", "struct"})) :
        defavg \in {Ramp, Flat, Steep}, pos \in {0, 3, 6}}

InitShared ==
    /\ charge \in Charges
    /\ defect_type = "Substitution"
    /\ defect_sc = [structure |-> StructureOf(Lattice0, NoShift), defindex |-> 0]
    /\ dc = DefaultCompatibility("freysoldt", TRUE, TRUE)
    /\ parameters \in SharedEntries
    /\ \E axis \in {NoAxis, [kind |-> "list", v |-> <<0>>]} :
           FC = [dielectric |-> 2, axis |-> axis, metadata |-> FreshFCMetadata]
    /\ KC = [dielectric |-> 2, metadata |-> FreshKCMetadata(0, 0)]
    /\ NoHistory

\* the first entry after get_correction(another) of the same object has ended in
\* frame e: dict(self.metadata) of line 132 copied the outer dict only, so the
\* freysoldt_meta the first entry holds refers to the dicts pot_plot_data and
\* pot_corr_uncertainty_md of the object, which lines 272-282 assign into
SharingMetadata(p, e) ==
    IF "freysoldt_meta" \in DOMAIN p
        THEN [e EXCEPT !.p = Put(p, "freysoldt_meta", e.fc)]
    ELSE [e EXCEPT !.p = p]

\* get_correction(another) of the same object, another entry of the same charge
FreysoldtCorrectionGetCorrectionOfAnother ==
    \E entry \in SharedEntries :
        /\ entry # Restrict(parameters, DOMAIN entry)
        /\ Commit(SharingMetadata(parameters,
                                  FreysoldtGetCorrection([Frame EXCEPT !.p = entry], FC)),
                  "FreysoldtCorrection.get_correction(another)")

NextShared ==
    \/ FreysoldtCorrectionGetCorrection
    \/ FreysoldtCorrectionGetCorrectionOfAnother

SpecShared == InitShared /\ [][NextShared]_vars

\* C28: the freysoldt_meta that FreysoldtCorrection.get_correction stored in an
\* entry's parameters does not change when the same correction object is
\* applied to a different entry: the per-axis diagnostics and plot data stored
\* for the first entry stay as they were.
C28_StoredRecordKeptWhenObjectReused ==
    [][(/\ op' = "FreysoldtCorrection.get_correction(another)"
        /\ "freysoldt_meta" \in DOMAIN parameters)
           => parameters'["freysoldt_meta"] = parameters["freysoldt_meta"]]_vars


----------------------------------------------------------------------------
(* LevelShiftCorrection.get_correction over the shift approaches, on       *)
(* entries with single particle levels in the gap                          *)

\* one spin channel, two k-points of weights 1 and 3, four bands: a core state,
\* two levels in the gap (the second k-point lies 4 higher) and a conduction
\* band state; e1, e2 the levels and o2 the occupation of the upper one
GapLevels(e1, e2, o2) ==
    << << << <<0 - 50, 1>>, <<e1, 1>>, <<e2, o2>>, <<120, 0>> >>,
          << <<0 - 50, 1>>, <<e1 + 4, 1>>, <<e2 + 4, o2>>, <<124, 0>> >> >> >>

\* lbl_dict: the localized band indices of each spin
LocalizedSets == {EmptyDict, [up |-> <<2>>], [up |-> <<1>>], [up |-> <<2, 3>>]}

\* the projections on the band edges (percent, per spin) of bands 1 and 2, of
\* band 1 only, or no projections
PawpyseedSets ==
    {EmptyDict,
     [pawpyseed |-> [b \in {1, 2} |-> << <<60, 80>>, <<40, 20>> >>]],
     [pawpyseed |-> [b \in {1} |-> << <<60, 80>>, <<40, 20>> >>]]}

\* nearest-neighbour and total weight of band 1 in the stored PROCAR data
StoredProcarDat == [b \in {1} |-> [nn_procar_occu |-> 1, tot_procar_occu |-> 4]]

ShiftEntries ==
    {Update(Restrict(FullParameters(Lattice0, Ramp, <<3, 0, 0>>, SiteRamp, NoShift, 1),
                     KeysOf({"band", "carriers", "kumagai"})),
            [eigenvalues |-> GapLevels(e1, e2, o2),
             kpoint_weights |-> <<1, 3>>,
             num_elec_cbm |-> 1,
             potalign |-> 0,
             gap |-> 100,
             bandshift_meta |-> [vbmshift |-> 0 - 20, cbmshift |-> cbmshift],
             bulk_sc_structure |-> StructureOf(Lattice0, NoShift),
             defect_index_sc_coords |-> 0,
             defect_ks_delocal_data |->
                 Update([localized_band_indices |-> lbl_dict,
                         stored_procar_dat |-> StoredProcarDat], pawpy)]) :
        e1 \in {10, 30}, e2 \in {45, 90}, o2 \in {0, 1}, cbmshift \in {5, 30},
        lbl_dict \in LocalizedSets, pawpy \in PawpyseedSets}

ShiftApproaches ==
    {<<>>, <<"i">>, <<"i", "A">>, <<"I", "b">>, <<"i", "i">>, <<"I", "I", "a">>,
     <<"i", "i", "i">>, <<"i", "v">>, <<"i", "v", "B">>, <<"v">>, <<"v", "a">>,
     <<"v", "i">>, <<"v", "i", "b">>, <<"a">>, <<"x">>, <<"i", "i", "i", "i">>}

InitShift ==
    /\ charge = 0 - 1
    /\ defect_type = "Substitution"
    /\ defect_sc = [structure |-> StructureOf(Lattice0, NoShift), defindex |-> 0]
    /\ dc = DefaultCompatibility("freysoldt", TRUE, TRUE)
    /\ parameters \in ShiftEntries
    /\ FreshObjects
    /\ NoHistory

\* LevelShiftCorrection().get_correction(entry, shift_approach)
LevelShiftCall(shift_approach) ==
    Commit(LevelShiftGetCorrection(Frame, shift_approach),
           "LevelShiftCorrection.get_correction")

LevelShiftCorrectionGetCorrectionOfApproach ==
    \E shift_approach \in ShiftApproaches : LevelShiftCall(shift_approach)

NextShift == LevelShiftCorrectionGetCorrectionOfApproach

SpecShift == InitShift /\ [][NextShift]_vars


----------------------------------------------------------------------------
(* The total of approach 'iv' and the dispatch on the approach (under      *)
(* SpecShift)                                                              *)

\* get_correction returned the total of approach 'iv'
SmartShiftReturned ==
    /\ op = "LevelShiftCorrection.get_correction"
    /\ raised = "none"
    /\ "smart_KS_shift" \in DOMAIN ret

\* C29: with approach 'iv' the returned smart_KS_shift equals the sum of the
\* 'corr' values recorded per band in smart_shift_md['track_for_corr'],
\* whichever way each band was handled.
C29_SmartShiftIsSumOfRecordedCorr ==
    SmartShiftReturned =>
        LET track_for_corr == parameters["levelshift_meta"]["smart_shift_md"]["track_for_corr"]
        IN  ret["smart_KS_shift"]
                = SumFn([b \in DOMAIN track_for_corr |-> track_for_corr[b].corr],
                        DOMAIN track_for_corr)

\* the totals of the approaches ii, iii, iv and v
StrategyTotals ==
    {"pawpyseed_always_KS_shift", "pawpyseed_nonlocal_KS_shift", "smart_KS_shift",
     "nn_adjusted_KS_shift"}

\* the approach without a trailing A or B, in lower case
StrategyPart(shift_approach) ==
    IF shift_approach # <<>> /\ shift_approach[Len(shift_approach)] \in {"a", "A", "b", "B"}
        THEN Lower(SubSeq(shift_approach, 1, Len(shift_approach) - 1))
    ELSE Lower(shift_approach)

Recognised(shift_approach) ==
    StrategyPart(shift_approach)
        \in {<<"i">>, <<"i", "i">>, <<"i", "i", "i">>, <<"i", "v">>, <<"v">>}

\* C30: get_correction with a shift_approach whose strategy part (without an
\* optional trailing A/B, case-insensitively) is not one of i, ii, iii, iv, v
\* raises ValueError and leaves entry.parameters unchanged; with a recognised
\* approach it returns at most one strategy-specific total.
C30_UnrecognisedApproachRaisesValueError ==
    [][\A shift_approach \in ShiftApproaches :
           LevelShiftCall(shift_approach) =>
               IF Recognised(shift_approach)
                   THEN raised' = "none" =>
                            Cardinality(DOMAIN ret' \cap StrategyTotals) <= 1
               ELSE raised' = "ValueError" /\ parameters' = parameters]_vars

====
